---- MODULE Spec2Model ----
(***************************************************************************)
(* Verification model of the KataGo engine integration layer of            *)
(* GoMobileAnalyzer (ServerGo): query construction, the streaming session, *)
(* the protocol dispatcher, the async bridge and the service watchdog.     *)
(***************************************************************************)
EXTENDS Integers, Sequences, FiniteSets, TLC

\* ------------------------------------------------------------------------
\* Bounds of the model
\* ------------------------------------------------------------------------
MaxMoves == 3        \* longest move list of a record (query specification)
MaxTurnArg == 5      \* largest start_turn / end_turn argument tried
MaxSessMoves == 2    \* longest move list of a record given to a session
MaxLines == 2        \* stdout lines the engine process writes in a run
MaxEngines == 3      \* engines the factory makes in a run
MaxStderr == 2       \* stderr lines of the process waiting to be read
MaxBoard == 21       \* largest board width and height tried
MaxTreeNodes == 4    \* most nodes below the root of a record with variations
MaxCands == 4        \* most candidate moves in one analysis result
TickStep == 30       \* seconds the clock advances in one step

\* ------------------------------------------------------------------------
\* Program constants
\* ------------------------------------------------------------------------
timeout_per_turn == 30
WatchdogPeriod == 30
StartupCeiling == 120

\* Optional values: {} is None, {v} is the value v.
None == {}
Some(v) == {v}
Val(o) == CHOOSE v \in o : TRUE
Opt(S) == {None} \cup {Some(v) : v \in S}

Min2(a, b) == IF a < b THEN a ELSE b
Max2(a, b) == IF a > b THEN a ELSE b

RECURSIVE Range(_, _)
\* list(range(a, b)): a, a+1, ..., b-1
Range(a, b) == IF a >= b THEN <<>> ELSE <<a>> \o Range(a + 1, b)

RECURSIVE SelectMoves(_)
\* [... for m in nodes if m.move]
SelectMoves(nodes) ==
    IF nodes = <<>> THEN <<>>
    ELSE (IF Head(nodes).move = None THEN <<>> ELSE <<Val(Head(nodes).move)>>)
         \o SelectMoves(Tail(nodes))

\* ------------------------------------------------------------------------
\* core/sgf/parser.py: Move
\* ------------------------------------------------------------------------
PLAYERS == {"B", "W"}
GTP_COORD == <<"A", "B", "C", "D", "E", "F", "G", "H", "J", "K", "L", "M", "N",
               "O", "P", "Q", "R", "S", "T", "U", "V", "W", "X", "Y", "Z">>

\* A coordinate is <<x, y>> (zero based) or <<>> for a pass.
PassCoord == <<>>

\* Move.gtp(): "pass", or column letter followed by the one-based row.
gtp(coords) ==
    IF coords = PassCoord THEN [col |-> "pass", row |-> 0]
    ELSE [col |-> GTP_COORD[coords[1] + 1], row |-> coords[2] + 1]

opponent_player(player) == IF player = "B" THEN "W" ELSE "B"

\* [player, move.gtp()] as placed in the query
GtpPair(m) == <<m.player, gtp(m.coords)>>

GtpList(ms) == [i \in 1..Len(ms) |-> GtpPair(ms[i])]

\* SGFNode.initial_player of the root: the PL property, else the colour of
\* the root's child (the first node of the line), else by the placements.
initial_player(rec) ==
    IF rec.pl # None
    THEN (IF Val(rec.pl) = "B" THEN "B" ELSE "W")
    ELSE IF Len(rec.nodes) > 0 /\ rec.nodes[1].move # None
    THEN Val(rec.nodes[1].move).player
    ELSE IF (\E k \in 1..Len(rec.placements) : rec.placements[k].player = "B")
            /\ ~(\E k \in 1..Len(rec.placements) : rec.placements[k].player = "W")
    THEN "W"
    ELSE "B"

\* ------------------------------------------------------------------------
\* core/analysis/katago_utils.py: construct_katago_query
\* ------------------------------------------------------------------------
\* construct_katago_query without the max(s, ...) of line 36
construct_katago_query_EndNotClamped(rec, start_turn, end_turn) ==
    LET moves == GtpList(SelectMoves(rec.nodes))
        initial_stones == GtpList(rec.placements)
        total_turns == Len(moves)
        s0 == IF start_turn # None THEN Val(start_turn) ELSE 0
        e0 == IF end_turn # None THEN Val(end_turn) ELSE total_turns
        s == Max2(0, Min2(s0, total_turns))
        e == Min2(e0, total_turns)
        analyze_turns == IF total_turns = 0 /\ Len(initial_stones) > 0
                         THEN <<0>>
                         ELSE Range(s, e + 1)
    IN [moves |-> moves,
        initialStones |-> initial_stones,
        initialPlayer |-> initial_player(rec),
        analyzeTurns |-> analyze_turns,
        num_expected |-> Len(analyze_turns)]

construct_katago_query(rec, start_turn, end_turn) ==
    LET moves == GtpList(SelectMoves(rec.nodes))
        initial_stones == GtpList(rec.placements)
        total_turns == Len(moves)
        s0 == IF start_turn # None THEN Val(start_turn) ELSE 0
        e0 == IF end_turn # None THEN Val(end_turn) ELSE total_turns
        s == Max2(0, Min2(s0, total_turns))
        e == Max2(s, Min2(e0, total_turns))
        analyze_turns == IF total_turns = 0 /\ Len(initial_stones) > 0
                         THEN <<0>>
                         ELSE Range(s, e + 1)
    IN [moves |-> moves,
        initialStones |-> initial_stones,
        initialPlayer |-> initial_player(rec),
        analyzeTurns |-> analyze_turns,
        num_expected |-> Len(analyze_turns)]

\* ------------------------------------------------------------------------
\* core/analysis/sync_engine.py: analyze_streaming_generator, lines 194-256
\* ------------------------------------------------------------------------
\* any(s[1] == first_move_gtp for s in initial_stones)
\* the collision test comparing [player, coordinate] instead of coordinate
FirstMoveCollides_SameColour(moves, initial_stones) ==
    /\ moves # <<>>
    /\ initial_stones # <<>>
    /\ \E k \in 1..Len(initial_stones) : initial_stones[k] = moves[1]

FirstMoveCollides(moves, initial_stones) ==
    /\ moves # <<>>
    /\ initial_stones # <<>>
    /\ \E k \in 1..Len(initial_stones) : initial_stones[k][2] = moves[1][2]

BuildStreamingQuery(rec, start_turn, end_turn) ==
    LET moves0 == GtpList(SelectMoves(rec.nodes))
        initial_stones == GtpList(rec.placements)
        collide == FirstMoveCollides(moves0, initial_stones)
        moves == IF collide THEN Tail(moves0) ELSE moves0
        total_turns == Len(moves)
        player == IF collide THEN opponent_player(initial_player(rec))
                  ELSE initial_player(rec)
        yield_offset == IF collide THEN 2 ELSE 1
        s0 == IF start_turn # None THEN Val(start_turn) ELSE 1
        e0 == IF end_turn # None THEN Val(end_turn) ELSE total_turns
        s == Max2(1, Min2(s0, total_turns))
        e == Max2(s, Min2(e0, total_turns))
        analyze_turns == IF total_turns = 0 /\ Len(initial_stones) > 0
                         THEN <<0>>
                         ELSE Range(s - 1, e)
    IN [moves |-> moves,
        initialStones |-> initial_stones,
        initialPlayer |-> player,
        analyzeTurns |-> analyze_turns,
        num_expected |-> Len(analyze_turns),
        yield_offset |-> yield_offset]

\* the yield reporting the engine's turn number without the offset
YieldTurn_NoOffset(turnNumber, yield_offset) ==
    IF turnNumber = None THEN 0 ELSE Val(turnNumber)

\* result.get("turnNumber", 0) + yield_offset
YieldTurn(turnNumber, yield_offset) ==
    (IF turnNumber = None THEN 0 ELSE Val(turnNumber)) + yield_offset


\* ------------------------------------------------------------------------
\* Records (parsed game records) used as inputs
\* ------------------------------------------------------------------------
Coord(i) == <<i, 0>>

\* A node of the record: at most one move.
MoveNode(player, coords) == [move |-> Some([player |-> player, coords |-> coords])]
EmptyNode == [move |-> None]

\* n main-line nodes, players alternating from `first', the first move at
\* coordinate c1, the following moves at distinct other coordinates.
RECURSIVE LineNodes(_, _, _, _)
LineNodes(n, first, c1, k) ==
    IF k > n THEN <<>>
    ELSE <<MoveNode(IF k % 2 = 1 THEN first ELSE opponent_player(first),
                    IF k = 1 THEN c1 ELSE Coord(k + 1))>>
         \o LineNodes(n, first, c1, k + 1)

StoneLists == {<<>>,
               <<[player |-> "B", coords |-> Coord(0)]>>,
               <<[player |-> "W", coords |-> Coord(1)]>>,
               <<[player |-> "B", coords |-> Coord(0)],
                 [player |-> "W", coords |-> Coord(1)]>>,
               <<[player |-> "B", coords |-> PassCoord]>>}

FirstCoords == {Coord(0), Coord(1), Coord(2), PassCoord}

Records ==
    {[nodes |-> LineNodes(n, f, c, 1), placements |-> st, pl |-> p] :
        n \in 0..MaxMoves, f \in PLAYERS, c \in FirstCoords,
        st \in StoneLists, p \in Opt(PLAYERS)}
    \cup
    {[nodes |-> <<EmptyNode>> \o LineNodes(n, "W", Coord(0), 1),
      placements |-> st, pl |-> None] : n \in 0..MaxMoves, st \in StoneLists}

TurnArgs == Opt((0 - 2)..MaxTurnArg)

PlainRec(n) == [nodes |-> LineNodes(n, "B", Coord(0), 1), placements |-> <<>>,
                pl |-> None]
SessionInputs == {PlainRec(n) : n \in 1..MaxSessMoves}

\* ------------------------------------------------------------------------
\* State
\* ------------------------------------------------------------------------
VARIABLES
    \* query specification
    qin,               \* arguments of the call: record, start_turn, end_turn
    qout,              \* what the call returned
    \* engine specification (KataGoEngine + AsyncKataGoEngine)
    katago_process,    \* "running" or "exited": state of the subprocess
    engine_in,         \* queries the process read from stdin: id -> analyzeTurns
    stdout_pipe,       \* lines written by the process, not yet read
    reader,            \* "reading" or "closed": the stdout _read_pipe thread
    response_queue,    \* self.response_queue
    dispatcher,        \* "running" or "stopped": the _dispatch_responses thread
    pending_requests,  \* self.pending_requests: id -> [num_expected, results]
    sess,              \* per call of analyze_streaming_generator: its locals
    age,               \* per session: time.time() - last_receive_time
    emitted,           \* history: error-free responses written, per id, each
                       \* with whether the id was registered at that moment
    nlines,            \* history: number of lines written by the process
    loop_ready,        \* callbacks scheduled with call_soon_threadsafe
    bqueue,            \* per call of analyze_streaming: its asyncio.Queue
    cons,              \* per call of analyze_streaming: the consuming side
    setup,             \* which callers exist, whether the bridge is tracked
                       \* and whether the holding of self.lock is tracked
    \* service specification (KataGoService)
    svc_engine,        \* self.engine: 0 for None, else the handle of an engine
    procs,             \* the engines made by the factory, by handle: the state
                       \* of each one's process
    svc_lock,          \* self.lock: "free" or who holds it
    watchdog,          \* self.watchdog_task and the position of its loop
    main,              \* the start() call of the application start-up
    acall,             \* a call of analyze
    scall,             \* a call of analyze_stream
    stopper,           \* the stop() call of the application shutdown
    \* engine start-up (KataGoEngine.start) and histories
    start_call,        \* a call of KataGoEngine.start(): position and locals
    stderr_pipe,       \* stderr lines written by the process, not yet read
    stderr_queue,      \* self.stderr_queue
    error_log,         \* serials of the lines logged as "KataGo Backend Error"
    restarted          \* the engine the watchdog made after a crash: its
                       \* process and the query lines written to its stdin

qvars == <<qin, qout>>
evars == <<katago_process, engine_in, stdout_pipe, reader, response_queue,
           dispatcher, pending_requests, sess, age, emitted, nlines>>
bvars == <<loop_ready, bqueue, cons, setup>>
svars == <<svc_engine, procs, svc_lock, watchdog, main, acall, scall, stopper>>
hvars == <<start_call, stderr_pipe, stderr_queue, error_log, restarted>>
xvars == <<qvars, svars, hvars>>
vars == <<qvars, evars, bvars, hvars, svars, hvars>>

Sessions == {1, 2}

is_running == katago_process = "running"

IdleSess == [pc |-> "idle", input |-> 0, num_expected |-> 0, yield_offset |-> 0,
             received_count |-> 0, new_results |-> <<>>,
             out |-> <<>>, registered |-> FALSE, writes |-> 0,
             locked |-> FALSE]

\* The engine's threads and tables, whatever the state of the subprocess.
InitEngineRest ==
    /\ engine_in = <<>>
    /\ stdout_pipe = <<>>
    /\ reader = "reading"
    /\ response_queue = <<>>
    /\ dispatcher = "running"
    /\ pending_requests = <<>>
    /\ sess = [s \in Sessions |-> IdleSess]
    /\ age = [s \in Sessions |-> 0]
    /\ emitted = [s \in Sessions |-> <<>>]
    /\ nlines = 0
    /\ loop_ready = <<>>
    /\ bqueue = [s \in Sessions |-> <<>>]
    /\ cons = [s \in Sessions |-> [pc |-> "waiting", got |-> <<>>]]

\* an engine whose start() has returned: the subprocess runs
InitEngineCore ==
    /\ katago_process = "running"
    /\ InitEngineRest

InitEngineVars ==
    /\ InitEngineCore
    /\ setup = [callers |-> Sessions, bridge |-> FALSE, locks |-> FALSE]

InitServiceVars ==
    /\ svc_engine = 0
    /\ procs = <<>>
    /\ svc_lock = "free"
    /\ watchdog = [task |-> "none", pc |-> "sleep", elapsed |-> 0, h |-> 0]
    /\ main = [pc |-> "idle", h |-> 0]
    /\ acall = [pc |-> "idle", h |-> 0, served |-> 0]
    /\ scall = [pc |-> "idle", served |-> 0]
    /\ stopper = "idle"

InitQueryVars ==
    /\ qin = [rec |-> PlainRec(0), start_turn |-> None, end_turn |-> None]
    /\ qout = [op |-> "none"]

\* an engine whose start() has returned; no line logged, no restart made
InitStartVars ==
    /\ start_call = [pc |-> "returned", elapsed |-> 0, alive |-> TRUE]
    /\ stderr_pipe = <<>>
    /\ stderr_queue = <<>>
    /\ error_log = {}
    /\ restarted = [process |-> "none", stdin |-> {}]


\* ------------------------------------------------------------------------
\* Query specification: the pure query builders applied to bounded inputs
\* ------------------------------------------------------------------------
InitQuery ==
    /\ qin \in [rec : Records, start_turn : TurnArgs, end_turn : TurnArgs]
    /\ qout = [op |-> "none"]
    /\ InitEngineVars
    /\ InitServiceVars /\ InitStartVars

\* construct_katago_query(req_id, sgf, visits, start_turn, end_turn)
CallConstruct ==
    /\ qout.op = "none"
    /\ qout' = [op |-> "construct",
                q |-> construct_katago_query(qin.rec, qin.start_turn, qin.end_turn)]
    /\ UNCHANGED <<qin, evars, bvars, svars, hvars>>

\* analyze_streaming_generator up to the query dictionary (lines 192-256)
CallStreaming ==
    /\ qout.op = "none"
    /\ qout' = [op |-> "streaming",
                q |-> BuildStreamingQuery(qin.rec, qin.start_turn, qin.end_turn)]
    /\ UNCHANGED <<qin, evars, bvars, svars, hvars>>

\* the yield of one engine result (lines 291-293) by the session built above
YieldOne ==
    /\ qout.op = "streaming"
    /\ \E tn \in Opt(0..MaxMoves) :
          qout' = [op |-> "yielded", q |-> qout.q, turnNumber |-> tn,
                   turn |-> YieldTurn(tn, qout.q.yield_offset)]
    /\ UNCHANGED <<qin, evars, bvars, svars, hvars>>

NextQuery == CallConstruct \/ CallStreaming \/ YieldOne

SpecQuery == InitQuery /\ [][NextQuery]_vars


\* --- properties of the query builders --------------------------------------
QMoves == SelectMoves(qin.rec.nodes)

\* the first move of the record sits on the coordinate of a setup stone
QCollision ==
    /\ QMoves # <<>>
    /\ \E k \in 1..Len(qin.rec.placements) :
          qin.rec.placements[k].coords = QMoves[1].coords

Contiguous(turns) == \A i \in 1..(Len(turns) - 1) : turns[i + 1] = turns[i] + 1

\* C8: collision offset.  When the first move's coordinate equals the
\* coordinate of a setup stone, the streaming session sends the move list
\* without that first move, sends the opponent of the record's starting
\* player as initialPlayer and reports turn = turnNumber + 2; in every other
\* case the move list and the starting player are unchanged and
\* turn = turnNumber + 1.
C8_CollisionOffset ==
    qout.op \in {"streaming", "yielded"} =>
        LET offset == IF QCollision THEN 2 ELSE 1
        IN /\ qout.q.moves = (IF QCollision THEN Tail(GtpList(QMoves))
                              ELSE GtpList(QMoves))
           /\ qout.q.initialPlayer =
                 (IF QCollision THEN opponent_player(initial_player(qin.rec))
                  ELSE initial_player(qin.rec))
           /\ (qout.op = "yielded" /\ qout.turnNumber # None
                  => qout.turn = Val(qout.turnNumber) + offset)

C8_Witness ==
    /\ qout.op = "yielded"
    /\ qout.turnNumber = Some(1)
    /\ QCollision
    /\ Len(QMoves) >= 2
    /\ qout.turn = 3

\* C9: turn-range clamp of construct_katago_query.  For a record with N
\* moves and any (start_turn, end_turn), analyzeTurns is a contiguous range
\* s..e with 0 <= s <= e <= N; a range entirely beyond N gives exactly [N],
\* a range entirely before 0 gives exactly [0]; the returned expected count
\* is the length of analyzeTurns.
C9_TurnRangeClamp ==
    qout.op = "construct" =>
        LET N == Len(QMoves)
            turns == qout.q.analyzeTurns
            st == qin.start_turn
            en == qin.end_turn
        IN /\ Len(turns) >= 1
           /\ Contiguous(turns)
           /\ 0 <= turns[1]
           /\ turns[Len(turns)] <= N
           /\ (st # None /\ en # None /\ Val(st) > N /\ Val(en) > N
                  => turns = <<N>>)
           /\ (st # None /\ en # None /\ Val(st) < 0 /\ Val(en) < 0
                  => turns = <<0>>)
           /\ qout.q.num_expected = Len(turns)

C9_Witness ==
    /\ qout.op = "construct"
    /\ Len(QMoves) = 2
    /\ qin.start_turn = Some(4)
    /\ qin.end_turn = Some(5)
    /\ qout.q.analyzeTurns = <<2>>

\* ------------------------------------------------------------------------
\* Engine specification: the subprocess, the reader and dispatcher threads,
\* the streaming sessions and the async bridge
\* ------------------------------------------------------------------------
InitEngine == InitQueryVars /\ InitEngineVars /\ InitServiceVars /\ InitStartVars

\* dict helpers
Put(d, k, v) == [x \in (DOMAIN d) \cup {k} |-> IF x = k THEN v ELSE d[x]]
Pop(d, k) == [x \in (DOMAIN d) \ {k} |-> d[x]]

\* the slice taken from the start of the list: results[0:]
Slice_Whole(results, received_count) ==
    IF Len(results) > received_count THEN results ELSE <<>>

\* results[received_count:]
Slice(results, received_count) ==
    IF Len(results) > received_count
    THEN SubSeq(results, received_count + 1, Len(results))
    ELSE <<>>

Item(turn, n) == [k |-> "item", turn |-> turn, n |-> n]
EofItem == [k |-> "eof", turn |-> 0, n |-> 0]
ExcItem == [k |-> "exc", turn |-> 0, n |-> 0]

\* a hand-off that lets a later item overtake the earlier ones
CallSoon_Front(ready, s, item) == <<[s |-> s, item |-> item]>> \o ready

\* loop.call_soon_threadsafe(queue.put_nowait, item) by the producer of s
CallSoon(ready, s, item) == Append(ready, [s |-> s, item |-> item])

\* --- the engine process (opaque external program) ------------------------

\* The process writes one response line to stdout.
EngineWrite(line) ==
    /\ is_running
    /\ nlines < MaxLines
    /\ nlines' = nlines + 1
    /\ stdout_pipe' = Append(stdout_pipe, line)
    /\ emitted' = IF line.kind = "ok"
                  THEN [emitted EXCEPT ![line.id] =
                          Append(@, [n |-> line.n, turn |-> line.turn,
                                     reg |-> line.id \in DOMAIN pending_requests])]
                  ELSE emitted
    /\ UNCHANGED <<katago_process, engine_in, reader, response_queue, dispatcher,
                   pending_requests, sess, age, xvars, bvars>>

\* an analysis result for one of the turns of a query it has read
EngineAnswer ==
    \E id \in DOMAIN engine_in : \E i \in 1..Len(engine_in[id]) :
        EngineWrite([id |-> id, kind |-> "ok", turn |-> engine_in[id][i],
                     n |-> nlines + 1])

\* a response carrying a top-level error field for a query it has read
EngineError ==
    \E id \in DOMAIN engine_in :
        EngineWrite([id |-> id, kind |-> "error", turn |-> 0, n |-> nlines + 1])

\* a line that is not a JSON object
EngineNoise ==
    EngineWrite([id |-> 0, kind |-> "nonjson", turn |-> 0, n |-> nlines + 1])

\* The process exits (crash or kill); what it wrote stays in the pipe.
ProcessExit ==
    /\ is_running
    /\ katago_process' = "exited"
    /\ UNCHANGED <<engine_in, stdout_pipe, reader, response_queue, dispatcher,
                   pending_requests, sess, age, emitted, nlines, xvars, bvars>>

\* --- KataGoEngine._read_pipe (stdout) ------------------------------------
ReadLine ==
    /\ reader = "reading"
    /\ stdout_pipe # <<>>
    /\ response_queue' = Append(response_queue, Head(stdout_pipe))
    /\ stdout_pipe' = Tail(stdout_pipe)
    /\ UNCHANGED <<katago_process, engine_in, reader, dispatcher,
                   pending_requests, sess, age, emitted, nlines, xvars, bvars>>

\* readline returns "" at end of file: the loop ends and the pipe is closed
ReadEof ==
    /\ reader = "reading"
    /\ stdout_pipe = <<>>
    /\ ~is_running
    /\ reader' = "closed"
    /\ UNCHANGED <<katago_process, engine_in, stdout_pipe, response_queue,
                   dispatcher, pending_requests, sess, age, emitted, nlines,
                   xvars, bvars>>

\* --- self.lock (threading.Lock) --------------------------------------------
\* A session holds the lock while its field locked is set, the dispatcher
\* while it is "appending".  Where the holding of the lock is not tracked
\* (setup.locks is FALSE) a locked section is one step and the lock is free
\* in every state.
LockFree ==
    /\ dispatcher # "appending"
    /\ \A s \in Sessions : ~sess[s].locked

\* session s is inside a with self.lock block
Holds(s) == setup.locks => sess[s].locked

\* --- KataGoEngine._dispatch_responses -------------------------------------
\* the dispatcher is at the append of line 152: it has the lock when the
\* line has an id and no error field (lines 149-150)
AtAppend ==
    IF setup.locks /\ Head(response_queue).kind = "ok"
    THEN dispatcher = "appending" ELSE dispatcher = "running"

\* a dispatcher that ignores the id and appends to every entry
DispatchAppend_AnyEntry(pending, line) ==
    IF line.kind = "ok"
    THEN [id \in DOMAIN pending |->
            [pending[id] EXCEPT !.results = Append(@, line)]]
    ELSE pending

\* the table after one line has been processed
DispatchAppend(pending, line) ==
    IF line.kind = "ok" /\ line.id \in DOMAIN pending
    THEN [pending EXCEPT ![line.id].results = Append(@, line)]
    ELSE pending

\* lines 144-145: a response with a top-level error field is logged
LogError(log, line) == IF line.kind = "error" THEN log \cup {line.n} ELSE log

\* a dispatch loop that ends when a line cannot be processed
AfterLine_NoiseFatal(line) ==
    IF line.kind = "nonjson" THEN "stopped" ELSE "running"

\* lines 159-163: whatever processing a line raises is caught inside the
\* loop, which goes on to the next queue.get
AfterLine(line) == "running"

\* a dispatcher that also delivers the lines carrying an error field
DispatchLine_DeliversErrors ==
    /\ response_queue # <<>>
    /\ AtAppend
    /\ response_queue' = Tail(response_queue)
    /\ LET line == Head(response_queue)
       IN pending_requests' =
             IF line.kind \in {"ok", "error"} /\ line.id \in DOMAIN pending_requests
             THEN [pending_requests EXCEPT ![line.id].results = Append(@, line)]
             ELSE pending_requests
    /\ error_log' = LogError(error_log, Head(response_queue))
    /\ dispatcher' = AfterLine(Head(response_queue))
    /\ UNCHANGED <<katago_process, engine_in, stdout_pipe, reader,
                   sess, age, emitted, nlines, qvars, svars, bvars,
                   start_call, stderr_pipe, stderr_queue, restarted>>

\* lines 133-152: one line is taken from the queue and processed
DispatchLine ==
    /\ response_queue # <<>>
    /\ AtAppend
    /\ response_queue' = Tail(response_queue)
    /\ pending_requests' = DispatchAppend(pending_requests, Head(response_queue))
    /\ error_log' = LogError(error_log, Head(response_queue))
    /\ dispatcher' = AfterLine(Head(response_queue))
    /\ UNCHANGED <<katago_process, engine_in, stdout_pipe, reader,
                   sess, age, emitted, nlines, qvars, svars, bvars,
                   start_call, stderr_pipe, stderr_queue, restarted>>

\* lines 135-150 where the lock is tracked: queue.get has returned a line
\* with an id and no error field, and the lock is acquired for the append.
\* The line in the dispatcher's hand stays at the head of response_queue
\* until DispatchLine appends it.
DispatchLock ==
    /\ setup.locks
    /\ dispatcher = "running"
    /\ response_queue # <<>>
    /\ Head(response_queue).kind = "ok"
    /\ LockFree
    /\ dispatcher' = "appending"
    /\ UNCHANGED <<katago_process, engine_in, stdout_pipe, reader, response_queue,
                   pending_requests, sess, age, emitted, nlines, xvars, bvars>>

\* queue.get timed out (Empty): the loop ends when the process is gone
DispatchEmpty ==
    /\ dispatcher = "running"
    /\ response_queue = <<>>
    /\ ~is_running
    /\ dispatcher' = "stopped"
    /\ UNCHANGED <<katago_process, engine_in, stdout_pipe, reader, response_queue,
                   pending_requests, sess, age, emitted, nlines, xvars, bvars>>


\* --- KataGoEngine.analyze_streaming_generator, driven by the producer ----
\* --- thread of AsyncKataGoEngine.analyze_streaming ------------------------
Draining(s) == sess[s].pc \in {"loop", "yielding", "check", "sleep"}
Ended(s) == sess[s].pc \in {"done", "timeout", "send_failed", "not_running"}
\* time.time() - last_receive_time > timeout_per_turn
Expired(s) == age[s] > timeout_per_turn

\* a producer that schedules every item twice
Forward_Twice(s, item) ==
    loop_ready' = IF setup.bridge
                  THEN CallSoon(CallSoon(loop_ready, s, item), s, item)
                  ELSE loop_ready

\* The producer thread hands an item to the event loop.
Forward(s, item) ==
    loop_ready' = IF setup.bridge THEN CallSoon(loop_ready, s, item)
                  ELSE loop_ready

\* The generator raised: the producer forwards the exception (lines 66-68).
Raise(s) == Forward(s, ExcItem)

\* The frame of a generator that has ended: its locals are gone.
EndSess(r, pc) == [IdleSess EXCEPT !.pc = pc, !.out = r.out,
                                  !.registered = r.registered,
                                  !.num_expected = r.num_expected,
                                  !.input = r.input, !.writes = r.writes]

\* The calls are numbered in the order they begin (the request id is a fresh
\* uuid, line 191).
NextCaller(s) ==
    /\ sess[s].pc = "idle"
    /\ s \in setup.callers
    /\ \A r \in Sessions : r < s => sess[r].pc # "idle"

\* line 187: the process is not running
BeginNotRunning(s) ==
    /\ NextCaller(s)
    /\ ~is_running
    /\ sess' = [sess EXCEPT ![s] = EndSess(@, "not_running")]
    /\ Raise(s)
    /\ UNCHANGED <<katago_process, engine_in, stdout_pipe, reader, response_queue,
                   dispatcher, pending_requests, age, emitted, nlines, xvars,
                   bqueue, cons, setup>>

\* lines 187-256: parse the record and build the query
Begin(s) ==
    /\ NextCaller(s)
    /\ is_running
    /\ \E rec \in SessionInputs :
          LET q == BuildStreamingQuery(rec, None, None)
          IN sess' = [sess EXCEPT ![s].pc = "built", ![s].input = q,
                                  ![s].num_expected = q.num_expected,
                                  ![s].yield_offset = q.yield_offset]
    /\ UNCHANGED <<katago_process, engine_in, stdout_pipe, reader, response_queue,
                   dispatcher, pending_requests, age, emitted, nlines, xvars,
                   bvars>>

\* lines 258, 276, 311, 318 where the lock is tracked: with self.lock is
\* entered before the insertion, before a snapshot, and before each removal
Acquire(s) ==
    /\ setup.locks
    /\ sess[s].pc \in {"built", "loop", "check"}
    /\ LockFree
    /\ sess' = [sess EXCEPT ![s].locked = TRUE]
    /\ UNCHANGED <<katago_process, engine_in, stdout_pipe, reader, response_queue,
                   dispatcher, pending_requests, age, emitted, nlines, xvars,
                   bvars>>

\* a session whose with block does not end after the insertion: the lock is
\* still held during the write that follows
Register_KeepsLock(s) ==
    /\ sess[s].pc = "built"
    /\ Holds(s)
    /\ pending_requests' = Put(pending_requests, s,
                               [num_expected |-> sess[s].num_expected,
                                results |-> <<>>])
    /\ sess' = [sess EXCEPT ![s].pc = "registered", ![s].registered = TRUE]
    /\ UNCHANGED <<katago_process, engine_in, stdout_pipe, reader, response_queue,
                   dispatcher, age, emitted, nlines, xvars, bvars>>

\* lines 258-262: the insertion; the with block ends
Register(s) ==
    /\ sess[s].pc = "built"
    /\ Holds(s)
    /\ pending_requests' = Put(pending_requests, s,
                               [num_expected |-> sess[s].num_expected,
                                results |-> <<>>])
    /\ sess' = [sess EXCEPT ![s].pc = "registered", ![s].registered = TRUE,
                            ![s].locked = FALSE]
    /\ UNCHANGED <<katago_process, engine_in, stdout_pipe, reader, response_queue,
                   dispatcher, age, emitted, nlines, xvars, bvars>>

\* a session that writes the query line before it has inserted its entry
Send_BeforeRegister(s) ==
    /\ sess[s].pc = "built"
    /\ is_running
    /\ engine_in' = Put(engine_in, s, sess[s].input.analyzeTurns)
    /\ sess' = [sess EXCEPT ![s].pc = "written", ![s].writes = @ + 1]
    /\ UNCHANGED <<katago_process, stdout_pipe, reader, response_queue,
                   dispatcher, pending_requests, age, emitted, nlines, xvars,
                   bvars>>

\* lines 264-265: stdin.write of the query line.  The pipe is line buffered
\* and written through (Popen with text=True, bufsize=1), so the process has
\* the line when write returns.  No lock is held.
Send(s) ==
    /\ sess[s].pc = "registered"
    /\ is_running
    /\ engine_in' = Put(engine_in, s, sess[s].input.analyzeTurns)
    /\ sess' = [sess EXCEPT ![s].pc = "written", ![s].writes = @ + 1]
    /\ UNCHANGED <<katago_process, stdout_pipe, reader, response_queue,
                   dispatcher, pending_requests, age, emitted, nlines, xvars,
                   bvars>>

\* lines 266-273: stdin.flush (nothing is left to flush), then the locals of
\* the drain loop
Flush(s) ==
    /\ sess[s].pc = "written"
    /\ sess' = [sess EXCEPT ![s].pc = "loop", ![s].received_count = 0]
    /\ age' = [age EXCEPT ![s] = 0]
    /\ UNCHANGED <<katago_process, engine_in, stdout_pipe, reader,
                   response_queue, dispatcher, pending_requests, emitted, nlines,
                   xvars, bvars>>

\* lines 264-268: the write or the flush raises (the process has exited and
\* the pipe is broken); the exception leaves the generator
SendFails(s) ==
    /\ sess[s].pc = "registered"
    /\ ~is_running
    /\ sess' = [sess EXCEPT ![s] = EndSess(@, "send_failed")]
    /\ Raise(s)
    /\ UNCHANGED <<katago_process, engine_in, stdout_pipe, reader, response_queue,
                   dispatcher, pending_requests, age, emitted, nlines, xvars,
                   bqueue, cons, setup>>

\* results[received_count:] of the entry of s, read under the lock
NewResults(s) ==
    Slice(IF s \in DOMAIN pending_requests
          THEN pending_requests[s].results ELSE <<>>,
          sess[s].received_count)

\* lines 275-284: the snapshot holds new results
Poll(s) ==
    /\ sess[s].pc = "loop"
    /\ Holds(s)
    /\ sess[s].received_count < sess[s].num_expected
    /\ NewResults(s) # <<>>
    /\ sess' = [sess EXCEPT ![s].pc = "yielding",
                            ![s].new_results = NewResults(s),
                            ![s].locked = FALSE]
    /\ age' = [age EXCEPT ![s] = 0]
    /\ UNCHANGED <<katago_process, engine_in, stdout_pipe, reader, response_queue,
                   dispatcher, pending_requests, emitted, nlines, xvars,
                   bvars>>

\* a session without the timeout test: it sleeps and polls for ever
PollExpired_Never(s) ==
    /\ FALSE
    /\ UNCHANGED vars

\* lines 275-283, 309-310: the snapshot holds nothing new and the window has
\* elapsed.  (While it has not, the session sleeps 0.05 s and polls again,
\* line 316, which changes nothing.)
PollExpired(s) ==
    /\ sess[s].pc = "loop"
    /\ Holds(s)
    /\ sess[s].received_count < sess[s].num_expected
    /\ NewResults(s) = <<>>
    /\ Expired(s)
    /\ sess' = [sess EXCEPT ![s].pc = "check", ![s].locked = FALSE]
    /\ UNCHANGED <<katago_process, engine_in, stdout_pipe, reader, response_queue,
                   dispatcher, pending_requests, age, emitted, nlines, xvars,
                   bvars>>

\* lines 275-283, 309-310 where the lock is tracked: the snapshot holds
\* nothing new and the window has not elapsed
PollEmpty(s) ==
    /\ setup.locks
    /\ sess[s].pc = "loop"
    /\ sess[s].locked
    /\ sess[s].received_count < sess[s].num_expected
    /\ NewResults(s) = <<>>
    /\ ~Expired(s)
    /\ sess' = [sess EXCEPT ![s].pc = "sleep", ![s].locked = FALSE]
    /\ UNCHANGED <<katago_process, engine_in, stdout_pipe, reader, response_queue,
                   dispatcher, pending_requests, age, emitted, nlines, xvars,
                   bvars>>

\* line 316: time.sleep(0.05), then the loop condition again
Sleep(s) ==
    /\ sess[s].pc = "sleep"
    /\ sess' = [sess EXCEPT ![s].pc = "loop"]
    /\ UNCHANGED <<katago_process, engine_in, stdout_pipe, reader, response_queue,
                   dispatcher, pending_requests, age, emitted, nlines, xvars,
                   bvars>>

\* lines 285-308: one result is yielded; the producer hands it to the loop
Yield(s) ==
    /\ sess[s].pc = "yielding"
    /\ LET result == Head(sess[s].new_results)
           item == Item(YieldTurn(Some(result.turn), sess[s].yield_offset),
                        result.n)
       IN /\ sess' = [sess EXCEPT
                        ![s].received_count = @ + 1,
                        ![s].new_results = Tail(@),
                        ![s].out = Append(@, item),
                        ![s].pc = IF Tail(sess[s].new_results) = <<>>
                                  THEN "loop" ELSE "yielding"]
          /\ Forward(s, item)
    /\ UNCHANGED <<katago_process, engine_in, stdout_pipe, reader, response_queue,
                   dispatcher, pending_requests, age, emitted, nlines, xvars,
                   bqueue, cons, setup>>

\* the timeout raised without removing the entry
Timeout_NoPop(s) ==
    /\ sess[s].pc = "check"
    /\ Holds(s)
    /\ sess' = [sess EXCEPT ![s] = EndSess(@, "timeout")]
    /\ age' = [age EXCEPT ![s] = 0]
    /\ Raise(s)
    /\ UNCHANGED <<katago_process, engine_in, stdout_pipe, reader, response_queue,
                   dispatcher, pending_requests, emitted, nlines, xvars, bqueue,
                   cons, setup>>

\* lines 311-315: the entry is removed under the lock and the timeout raised
Timeout(s) ==
    /\ sess[s].pc = "check"
    /\ Holds(s)
    /\ pending_requests' = Pop(pending_requests, s)
    /\ sess' = [sess EXCEPT ![s] = EndSess(@, "timeout")]
    /\ age' = [age EXCEPT ![s] = 0]
    /\ Raise(s)
    /\ UNCHANGED <<katago_process, engine_in, stdout_pipe, reader, response_queue,
                   dispatcher, emitted, nlines, xvars, bqueue, cons, setup>>

\* lines 275, 318-319 and the producer's end-of-stream sentinel (line 65)
Finish(s) ==
    /\ sess[s].pc = "loop"
    /\ Holds(s)
    /\ sess[s].received_count >= sess[s].num_expected
    /\ pending_requests' = Pop(pending_requests, s)
    /\ sess' = [sess EXCEPT ![s] = EndSess(@, "done")]
    /\ age' = [age EXCEPT ![s] = 0]
    /\ Forward(s, EofItem)
    /\ UNCHANGED <<katago_process, engine_in, stdout_pipe, reader, response_queue,
                   dispatcher, emitted, nlines, xvars, bqueue, cons, setup>>

\* --- AsyncKataGoEngine.analyze_streaming: the event-loop side -------------
\* the loop runs the oldest scheduled callback: queue.put_nowait(item)
RunCallback ==
    /\ loop_ready # <<>>
    /\ LET cb == Head(loop_ready)
       IN bqueue' = [bqueue EXCEPT ![cb.s] = Append(@, cb.item)]
    /\ loop_ready' = Tail(loop_ready)
    /\ UNCHANGED <<evars, xvars, cons, setup>>

\* lines 74-85: item = await queue.get()
ConsumerGet(s) ==
    /\ cons[s].pc = "waiting"
    /\ bqueue[s] # <<>>
    /\ LET item == Head(bqueue[s])
       IN cons' = [cons EXCEPT ![s] =
                     IF item.k = "eof" THEN [@ EXCEPT !.pc = "ended"]
                     ELSE IF item.k = "exc" THEN [@ EXCEPT !.pc = "raised"]
                     ELSE [@ EXCEPT !.got = Append(@, item)]]
    /\ bqueue' = [bqueue EXCEPT ![s] = Tail(@)]
    /\ UNCHANGED <<evars, xvars, loop_ready, setup>>

\* the caller stops iterating the stream
ConsumerAbandon(s) ==
    /\ setup.bridge
    /\ cons[s].pc = "waiting"
    /\ sess[s].pc # "idle"
    /\ cons' = [cons EXCEPT ![s].pc = "abandoned"]
    /\ UNCHANGED <<evars, xvars, loop_ready, bqueue, setup>>

\* --- time ------------------------------------------------------------------
\* TickStep seconds pass: every waiting session's time since its last
\* receipt grows (a value beyond the window is not counted further).
Tick ==
    /\ \E s \in Sessions : Draining(s) /\ ~Expired(s)
    /\ age' = [s \in Sessions |->
                 IF Draining(s) /\ ~Expired(s) THEN age[s] + TickStep ELSE age[s]]
    /\ UNCHANGED <<katago_process, engine_in, stdout_pipe, reader, response_queue,
                   dispatcher, pending_requests, sess, emitted, nlines, xvars,
                   bvars>>

SessionStep(s) ==
    \/ BeginNotRunning(s) \/ Begin(s) \/ Register(s) \/ Send(s) \/ SendFails(s)
    \/ Flush(s)
    \/ Poll(s) \/ PollExpired(s) \/ Yield(s) \/ Timeout(s) \/ Finish(s)

Next ==
    \/ EngineAnswer \/ EngineError \/ EngineNoise \/ ProcessExit
    \/ ReadLine \/ ReadEof \/ DispatchLine \/ DispatchEmpty
    \/ \E s \in Sessions : SessionStep(s)
    \/ Tick

\* Two concurrent sessions on one engine; the consuming side is not tracked.
Spec == InitEngine /\ [][Next]_vars

\* One session consumed through AsyncKataGoEngine.analyze_streaming.
InitBridge ==
    /\ InitQueryVars
    /\ InitEngineCore
    /\ InitServiceVars /\ InitStartVars
    /\ setup = [callers |-> {1}, bridge |-> TRUE, locks |-> FALSE]

NextBridge ==
    \/ Next
    \/ RunCallback
    \/ \E s \in Sessions : ConsumerGet(s)
    \/ \E s \in Sessions : ConsumerAbandon(s)

SpecBridge == InitBridge /\ [][NextBridge]_vars


\* ------------------------------------------------------------------------
\* Properties of the engine specification
\* ------------------------------------------------------------------------
IsPrefix(a, b) == Len(a) <= Len(b) /\ \A i \in 1..Len(a) : a[i] = b[i]

Serials(seq) == [i \in 1..Len(seq) |-> seq[i].n]

RECURSIVE Registered(_)
\* the emissions made while the id was registered
Registered(seq) ==
    IF seq = <<>> THEN <<>>
    ELSE (IF Head(seq).reg THEN <<Head(seq)>> ELSE <<>>) \o Registered(Tail(seq))

\* C1: pending entries never outlive their session.  Whenever a session that
\* registered an entry has ended in any way (expected count reached, timeout,
\* or an error raised after the registration such as a failed stdin write),
\* pending_requests has no entry for its request id.
C1_NoEntryOutlivesSession ==
    \A s \in Sessions :
        Ended(s) /\ sess[s].registered => s \notin DOMAIN pending_requests

\* C2: timeout cleanup.  A session fails with the streaming timeout only when
\* more than timeout_per_turn seconds passed since the send or the last
\* receipt; a session that polls, finds nothing new and finds the window
\* elapsed fails with it; and when the timeout is raised the table no longer
\* has the session's id.
C2_TimeoutCleanup ==
    [][\A s \in Sessions :
          /\ (sess[s].pc = "loop" /\ sess'[s].pc # "loop" /\ NewResults(s) = <<>>
              /\ sess[s].received_count < sess[s].num_expected
                 => age[s] > 30 /\ sess'[s].pc = "check")
          /\ (sess[s].pc = "check" /\ sess'[s].pc # "check"
                 => /\ age[s] > 30
                    /\ sess'[s].pc = "timeout"
                    /\ s \notin DOMAIN pending_requests')
          /\ (sess[s].pc # "timeout" /\ sess'[s].pc = "timeout"
                 => sess[s].pc = "check" /\ s \notin DOMAIN pending_requests')
      ]_vars

C2_Witness ==
    \E s \in Sessions :
        /\ sess[s].pc = "timeout"
        /\ sess[s].num_expected = 2
        /\ Len(sess[s].out) = 1
        /\ s \notin DOMAIN pending_requests

\* C3: concurrency isolation.  Every result held by a pending entry carries
\* the id that keys the entry; dispatching a line changes no entry other than
\* the one keyed by the line's id, and never creates an entry.
C3_Isolation ==
    /\ [](\A id \in DOMAIN pending_requests :
            \A i \in 1..Len(pending_requests[id].results) :
               /\ pending_requests[id].results[i].id = id
               /\ pending_requests[id].results[i].kind = "ok")
    /\ [][response_queue # <<>> /\ response_queue' = Tail(response_queue)
            => /\ DOMAIN pending_requests' = DOMAIN pending_requests
               /\ \A id \in DOMAIN pending_requests :
                     id # Head(response_queue).id
                        => pending_requests'[id] = pending_requests[id]
               /\ Head(response_queue).kind = "ok"
                  /\ Head(response_queue).id \in DOMAIN pending_requests
                     => pending_requests'[Head(response_queue).id].results =
                           Append(pending_requests[Head(response_queue).id].results,
                                  Head(response_queue))
       ]_vars

\* responses of both ids delivered, the one of session 2 written first
C3_Witness ==
    /\ DOMAIN pending_requests = {1, 2}
    /\ Len(pending_requests[1].results) = 1
    /\ Len(pending_requests[2].results) = 1
    /\ pending_requests[2].results[1].n < pending_requests[1].results[1].n

\* C4 as stated: when a session has ended, what it yielded is exactly the
\* sequence of error-free responses written for its id while the entry was
\* registered.
C4_ExactlyTheEmitted ==
    \A s \in Sessions :
        Ended(s) => Serials(sess[s].out) = Serials(Registered(emitted[s]))

\* C4 (amended): per-request ordering.  What a session has yielded is always
\* a prefix of the sequence of error-free responses written for its id while
\* the entry was registered: emission order, nothing duplicated, nothing
\* skipped in between, each with turn = turnNumber + offset.
C4_YieldedPrefixOfEmitted ==
    \A s \in Sessions :
        /\ IsPrefix(Serials(sess[s].out), Serials(Registered(emitted[s])))
        /\ \A i \in 1..Len(sess[s].out) :
              sess[s].out[i].turn =
                 Registered(emitted[s])[i].turn + sess[s].input.yield_offset

C4_Witness ==
    \E s \in Sessions :
        /\ sess[s].pc = "done"
        /\ Len(sess[s].out) = 2
        /\ Serials(sess[s].out) = Serials(emitted[s])
        /\ sess[s].out[1].turn > sess[s].out[2].turn

\* the engine has answered every requested turn of s exactly once
AnsweredOnce(s) ==
    /\ s \in DOMAIN engine_in
    /\ Len(emitted[s]) = Len(engine_in[s])
    /\ \A i, j \in 1..Len(emitted[s]) :
          i # j => emitted[s][i].turn # emitted[s][j].turn

OutTurns(s) == {sess[s].out[i].turn : i \in 1..Len(sess[s].out)}

FullRange(s) == sess[s].pc = "done" /\ AnsweredOnce(s)

\* C10 as stated: a full-range session over N >= 1 moves and no initial
\* stones yields N + 1 results with the turns 1..N+1.
C10_YieldsNPlusOne ==
    \A s \in Sessions :
        FullRange(s) =>
            LET N == Len(sess[s].input.moves)
            IN /\ sess[s].num_expected = N + 1
               /\ Len(sess[s].out) = N + 1
               /\ OutTurns(s) = 1..(N + 1)

\* C10 (amended): a full-range session over N >= 1 moves and no initial
\* stones requests the N positions 0..N-1 and, the engine answering each
\* once, yields exactly N results whose turns are 1..N.
C10_YieldsN ==
    \A s \in Sessions :
        FullRange(s) =>
            LET N == Len(sess[s].input.moves)
            IN /\ N >= 1
               /\ engine_in[s] = Range(0, N)
               /\ sess[s].num_expected = N
               /\ Len(sess[s].out) = N
               /\ OutTurns(s) = 1..N

C10_Witness ==
    \E s \in Sessions :
        /\ FullRange(s)
        /\ Len(sess[s].input.moves) = 2
        /\ OutTurns(s) = {1, 2}


InWritePath == {s \in Sessions : sess[s].pc = "written"}

\* C20: write-path serialization.  At most one session is inside the stdin
\* write path (between its write and the end of its flush) at any time, so
\* no writer's write falls between another writer's write and flush.
C20_OneWriterAtATime == Cardinality(InWritePath) <= 1

\* ------------------------------------------------------------------------
\* Properties of the bridge
\* ------------------------------------------------------------------------
\* C6: bridge delivery.  The consumer of analyze_streaming receives the items
\* the blocking generator yielded, in the order yielded (at every moment a
\* prefix of them); the stream ends normally only after the generator has
\* returned and all its items were delivered; the generator's exception is
\* re-raised only after every item yielded before it was delivered.
C6_BridgeDelivery ==
    \A s \in Sessions :
        /\ IsPrefix(cons[s].got, sess[s].out)
        /\ (cons[s].pc = "ended"
               => sess[s].pc = "done" /\ cons[s].got = sess[s].out)
        /\ (cons[s].pc = "raised"
               => /\ sess[s].pc \in {"timeout", "send_failed", "not_running"}
                  /\ cons[s].got = sess[s].out)

\* the timeout re-raised after the one item yielded before it was delivered
C6_Witness ==
    \E s \in Sessions :
        /\ cons[s].pc = "raised"
        /\ sess[s].pc = "timeout"
        /\ Len(cons[s].got) = 1

\* The producer thread is scheduled and time passes; the consumer may stop.
FairSpecBridge ==
    /\ SpecBridge
    /\ WF_vars(Tick)
    /\ \A s \in Sessions : WF_vars(SessionStep(s))

\* C16: no cancellation through the bridge.  After the consumer has abandoned
\* the stream the worker still drives the generator to its end, so that
\* eventually the session has ended and its pending entry is removed.
C16_AbandonedStillCleansUp ==
    \A s \in Sessions :
        (cons[s].pc = "abandoned")
            ~> (Ended(s) /\ s \notin DOMAIN pending_requests)

\* ------------------------------------------------------------------------
\* Termination of a session
\* ------------------------------------------------------------------------
\* One session on the engine; threads are scheduled and time passes.
InitSolo ==
    /\ InitQueryVars
    /\ InitEngineCore
    /\ InitServiceVars /\ InitStartVars
    /\ setup = [callers |-> {1}, bridge |-> FALSE, locks |-> FALSE]

FairSpec ==
    /\ InitSolo /\ [][Next]_vars
    /\ WF_vars(Tick)
    /\ \A s \in Sessions : WF_vars(SessionStep(s))

\* C7: every session that has sent its query terminates, whatever the engine
\* does afterwards: it ends in Done having received its expected count, or in
\* the streaming timeout raised once the window since its last receipt has
\* elapsed; it never waits for ever.
C7_SessionTerminates ==
    /\ \A s \in Sessions : Draining(s) ~> sess[s].pc \in {"done", "timeout"}
    /\ [](\A s \in Sessions :
            sess[s].pc = "done" => Len(sess[s].out) >= sess[s].num_expected)
    /\ [][\A s \in Sessions :
            Draining(s) /\ ~Draining(s)'
               => \/ sess'[s].pc = "done"
                  \/ sess'[s].pc = "timeout" /\ age[s] > 30]_vars

\* a session ended by the timeout after the process had exited
C7_Witness ==
    \E s \in Sessions :
        /\ sess[s].pc = "timeout"
        /\ s \in DOMAIN engine_in
        /\ ~is_running


\* ------------------------------------------------------------------------
\* A crash during a session
\* ------------------------------------------------------------------------
\* a watchdog that sends the pending queries again to the engine it made
WatchdogReplaces_Resend ==
    /\ katago_process = "exited"
    /\ restarted.process = "none"
    /\ restarted' = [process |-> "running", stdin |-> DOMAIN pending_requests]
    /\ UNCHANGED <<evars, bvars, qvars, svars, start_call, stderr_pipe,
                   stderr_queue, error_log>>

\* KataGoService._watchdog_loop (lines 69-80) as the sessions of the crashed
\* engine see it: the service drops the dead engine and makes and starts a
\* new one, a new object with its own process, pipes and table.  The
\* sessions keep running on the old object.
WatchdogReplaces ==
    /\ katago_process = "exited"
    /\ restarted.process = "none"
    /\ restarted' = [process |-> "running", stdin |-> {}]
    /\ UNCHANGED <<evars, bvars, qvars, svars, start_call, stderr_pipe,
                   stderr_queue, error_log>>

NextCrash == Next \/ WatchdogReplaces

FairSpecCrash ==
    /\ InitSolo /\ [][NextCrash]_vars
    /\ WF_vars(Tick)
    /\ \A s \in Sessions : WF_vars(SessionStep(s))

InitService ==
    /\ InitQueryVars
    /\ InitEngineVars
    /\ InitServiceVars /\ InitStartVars

\* IGoEngine.is_running() of the engine with handle h
EngineRunning(h) == h # 0 /\ procs[h] = "running"

\* KataGoService.is_running()
ServiceRunning == svc_engine # 0 /\ EngineRunning(svc_engine)

\* engine.close(): terminates the process when it is running
Closed(ps, h) ==
    IF h # 0 /\ ps[h] = "running" THEN [ps EXCEPT ![h] = "closed"] ELSE ps

\* the factory makes a new engine; its start() begins (lines 21-24)
NewEngine == Len(procs) + 1

\* the watchdog task after start() has looked at it (lines 34-35)
EnsureWatchdog(w) ==
    IF w.task = "alive" THEN w
    ELSE [task |-> "alive", pc |-> "sleep", elapsed |-> 0, h |-> 0]

\* The outcome of an engine start: the process runs, or start() raised.  The
\* last engine the model allows always starts, so that a restart can be told
\* from the model running out of engines.
StartOutcomes(h) == IF h < MaxEngines THEN {"running", "failed"} ELSE {"running"}

\* --- start() at application start-up (main.py lifespan) -------------------
MainStartBegin ==
    /\ main.pc = "idle"
    /\ procs = <<>> /\ acall.pc = "idle" /\ scall.pc = "idle" /\ stopper = "idle"
    /\ svc_engine' = NewEngine
    /\ procs' = Append(procs, "starting")
    /\ main' = [pc |-> "starting", h |-> NewEngine]
    /\ UNCHANGED <<svc_lock, watchdog, acall, scall, stopper, qvars, evars, bvars, hvars>>

\* main.py lines 36-39: the engine paths are not configured, start() is not
\* called
MainSkip ==
    /\ main.pc = "idle"
    /\ main' = [main EXCEPT !.pc = "done"]
    /\ UNCHANGED <<svc_engine, procs, svc_lock, watchdog, acall, scall, stopper,
                   qvars, evars, bvars, hvars>>

\* a start() that keeps the engine it failed to start
MainStartEnd_KeepsEngine ==
    /\ main.pc = "starting"
    /\ procs[main.h] = "starting"
    /\ \E r \in StartOutcomes(main.h) :
          /\ procs' = [procs EXCEPT ![main.h] = r]
          /\ watchdog' = IF r = "running" THEN EnsureWatchdog(watchdog)
                         ELSE watchdog
    /\ main' = [main EXCEPT !.pc = "done"]
    /\ UNCHANGED <<svc_engine, svc_lock, acall, scall, stopper, qvars, evars,
                   bvars, hvars>>

\* lines 29-39: the awaited engine start returns or raises
MainStartEnd ==
    /\ main.pc = "starting"
    /\ procs[main.h] = "starting"
    /\ \E r \in StartOutcomes(main.h) :
          /\ procs' = [procs EXCEPT ![main.h] = r]
          /\ IF r = "running"
             THEN watchdog' = EnsureWatchdog(watchdog) /\ svc_engine' = svc_engine
             ELSE watchdog' = watchdog /\ svc_engine' = 0
    /\ main' = [main EXCEPT !.pc = "done"]
    /\ UNCHANGED <<svc_lock, acall, scall, stopper, qvars, evars, bvars, hvars>>

\* --- the engine process of a started engine exits unexpectedly ------------
Crash ==
    /\ \E h \in 1..Len(procs) :
          /\ procs[h] = "running"
          /\ h < MaxEngines
          /\ procs' = [procs EXCEPT ![h] = "exited"]
    /\ UNCHANGED <<svc_engine, svc_lock, watchdog, main, acall, scall, stopper,
                   qvars, evars, bvars, hvars>>

\* --- _watchdog_loop ---------------------------------------------------------
\* time passes while the watchdog sleeps (line 66)
WatchdogSleep ==
    /\ watchdog.task = "alive"
    /\ watchdog.pc = "sleep"
    /\ watchdog.elapsed < WatchdogPeriod
    /\ watchdog' = [watchdog EXCEPT !.elapsed = @ + TickStep]
    /\ UNCHANGED <<svc_engine, procs, svc_lock, main, acall, scall, stopper,
                   qvars, evars, bvars, hvars>>

\* lines 69-71: the lock is taken; there is no engine, or it is running
WatchdogHealthy ==
    /\ watchdog.task = "alive"
    /\ watchdog.pc = "sleep"
    /\ watchdog.elapsed >= WatchdogPeriod
    /\ svc_lock = "free"
    /\ svc_engine = 0 \/ EngineRunning(svc_engine)
    /\ watchdog' = [watchdog EXCEPT !.elapsed = 0]
    /\ UNCHANGED <<svc_engine, procs, svc_lock, main, acall, scall, stopper,
                   qvars, evars, bvars, hvars>>

\* a watchdog that only logs the crash and sleeps again
WatchdogRestart_OnlyLogs ==
    /\ watchdog.task = "alive"
    /\ watchdog.pc = "sleep"
    /\ watchdog.elapsed >= WatchdogPeriod
    /\ svc_lock = "free"
    /\ svc_engine # 0 /\ ~EngineRunning(svc_engine)
    /\ watchdog' = [watchdog EXCEPT !.elapsed = 0]
    /\ UNCHANGED <<svc_engine, procs, svc_lock, main, acall, scall, stopper,
                   qvars, evars, bvars, hvars>>

\* lines 69-80: the lock is taken, the held engine is not running: it is
\* closed and discarded, and a new engine is made and started
WatchdogRestart ==
    /\ watchdog.task = "alive"
    /\ watchdog.pc = "sleep"
    /\ watchdog.elapsed >= WatchdogPeriod
    /\ svc_lock = "free"
    /\ svc_engine # 0 /\ ~EngineRunning(svc_engine)
    /\ Len(procs) < MaxEngines
    /\ svc_lock' = "watchdog"
    /\ procs' = Append(Closed(procs, svc_engine), "starting")
    /\ svc_engine' = NewEngine
    /\ watchdog' = [watchdog EXCEPT !.pc = "start", !.h = NewEngine]
    /\ UNCHANGED <<main, acall, scall, stopper, qvars, evars, bvars, hvars>>

\* lines 79-83: the awaited start returns or raises (logged); the lock is
\* released and the loop sleeps again
WatchdogRestartEnd ==
    /\ watchdog.task = "alive"
    /\ watchdog.pc = "start"
    /\ procs[watchdog.h] = "starting"
    /\ \E r \in StartOutcomes(watchdog.h) :
          procs' = [procs EXCEPT ![watchdog.h] = r]
    /\ svc_lock' = "free"
    /\ watchdog' = [watchdog EXCEPT !.pc = "sleep", !.elapsed = 0, !.h = 0]
    /\ UNCHANGED <<svc_engine, main, acall, scall, stopper, qvars, evars, bvars, hvars>>


\* --- analyze (lines 114-136) ------------------------------------------------
\* Requests are served once the start-up start() has returned (main.py
\* lifespan).
\* the lock is taken and the held engine is running: engine.analyze is awaited
AnalyzeBegin ==
    /\ acall.pc = "idle"
    /\ main.pc = "done"
    /\ svc_lock = "free"
    /\ ServiceRunning
    /\ svc_lock' = "analyze"
    /\ acall' = [acall EXCEPT !.pc = "running", !.served = svc_engine]
    /\ UNCHANGED <<svc_engine, procs, watchdog, main, scall, stopper, qvars,
                   evars, bvars, hvars>>

\* an analyze that restarts the engine without taking the lock
AnalyzeRestart_NoLock ==
    /\ acall.pc = "idle"
    /\ main.pc = "done"
    /\ ~ServiceRunning
    /\ Len(procs) < MaxEngines
    /\ svc_lock' = "analyze"
    /\ procs' = Append(procs, "starting")
    /\ svc_engine' = NewEngine
    /\ acall' = [acall EXCEPT !.pc = "starting", !.h = NewEngine]
    /\ UNCHANGED <<watchdog, main, scall, stopper, qvars, evars, bvars, hvars>>

\* the lock is taken and there is no running engine: start() is awaited
AnalyzeRestart ==
    /\ acall.pc = "idle"
    /\ main.pc = "done"
    /\ svc_lock = "free"
    /\ ~ServiceRunning
    /\ Len(procs) < MaxEngines
    /\ svc_lock' = "analyze"
    /\ procs' = Append(procs, "starting")
    /\ svc_engine' = NewEngine
    /\ acall' = [acall EXCEPT !.pc = "starting", !.h = NewEngine]
    /\ UNCHANGED <<watchdog, main, scall, stopper, qvars, evars, bvars, hvars>>

\* an analyze that calls engine.analyze after the start attempt without
\* looking at the engine again
AnalyzeRestartEnd_NoRecheck ==
    /\ acall.pc = "starting"
    /\ procs[acall.h] = "starting"
    /\ \E r \in StartOutcomes(acall.h) :
          /\ procs' = [procs EXCEPT ![acall.h] = r]
          /\ svc_engine' = IF r = "running" THEN svc_engine ELSE 0
          /\ watchdog' = IF r = "running" THEN EnsureWatchdog(watchdog)
                         ELSE watchdog
    /\ acall' = [acall EXCEPT !.pc = "running", !.served = acall.h]
    /\ UNCHANGED <<svc_lock, main, scall, stopper, qvars, evars, bvars, hvars>>

\* start() has returned (it never raises): the engine is looked at again
AnalyzeRestartEnd ==
    /\ acall.pc = "starting"
    /\ procs[acall.h] = "starting"
    /\ \E r \in StartOutcomes(acall.h) :
          LET ps == [procs EXCEPT ![acall.h] = r]
              eng == IF r = "running" THEN svc_engine ELSE 0
          IN /\ procs' = ps
             /\ svc_engine' = eng
             /\ watchdog' = IF r = "running" THEN EnsureWatchdog(watchdog)
                            ELSE watchdog
             /\ IF eng # 0 /\ ps[eng] = "running"
                THEN /\ acall' = [acall EXCEPT !.pc = "running", !.served = eng]
                     /\ svc_lock' = svc_lock
                ELSE /\ acall' = [acall EXCEPT !.pc = "error"]
                     /\ svc_lock' = "free"
    /\ UNCHANGED <<main, scall, stopper, qvars, evars, bvars, hvars>>

\* engine.analyze returns or raises; the lock is released
AnalyzeEnd ==
    /\ acall.pc = "running"
    /\ acall' = [acall EXCEPT !.pc = "done"]
    /\ svc_lock' = "free"
    /\ UNCHANGED <<svc_engine, procs, watchdog, main, scall, stopper, qvars,
                   evars, bvars, hvars>>

\* --- analyze_stream (lines 170-176) -----------------------------------------
StreamBegin ==
    /\ scall.pc = "idle"
    /\ main.pc = "done"
    /\ scall' = IF ServiceRunning
                THEN [pc |-> "streaming", served |-> svc_engine]
                ELSE [pc |-> "error", served |-> 0]
    /\ UNCHANGED <<svc_engine, procs, svc_lock, watchdog, main, acall, stopper,
                   qvars, evars, bvars, hvars>>

StreamEnd ==
    /\ scall.pc = "streaming"
    /\ scall' = [scall EXCEPT !.pc = "done"]
    /\ UNCHANGED <<svc_engine, procs, svc_lock, watchdog, main, acall, stopper,
                   qvars, evars, bvars, hvars>>

\* a stop() that leaves the watchdog task running
Stop_KeepsWatchdog ==
    /\ stopper = "idle"
    /\ main.pc = "done"
    /\ ~(watchdog.task = "alive" /\ watchdog.pc = "start")
    /\ stopper' = "done"
    /\ procs' = Closed(procs, svc_engine)
    /\ svc_engine' = 0
    /\ UNCHANGED <<svc_lock, watchdog, main, acall, scall, qvars, evars, bvars,
                   hvars>>

\* --- stop() at application shutdown (lines 41-56) ---------------------------
\* The watchdog task is cancelled (a restart it was awaiting is abandoned and
\* its lock released), the held engine is closed and dropped.
Stop ==
    /\ stopper = "idle"
    /\ main.pc = "done"
    /\ stopper' = "done"
    /\ svc_lock' = IF watchdog.task = "alive" /\ watchdog.pc = "start"
                   THEN "free" ELSE svc_lock
    /\ watchdog' = [task |-> "none", pc |-> "sleep", elapsed |-> 0, h |-> 0]
    /\ procs' = Closed(procs, svc_engine)
    /\ svc_engine' = 0
    /\ UNCHANGED <<main, acall, scall, qvars, evars, bvars, hvars>>

\* the start of an engine nobody awaits any more runs to its end in its thread
AbandonedStartEnd ==
    /\ \E h \in 1..Len(procs) :
          /\ procs[h] = "starting"
          /\ ~(main.pc = "starting" /\ main.h = h)
          /\ ~(acall.pc = "starting" /\ acall.h = h)
          /\ ~(watchdog.task = "alive" /\ watchdog.pc = "start" /\ watchdog.h = h)
          /\ \E r \in StartOutcomes(h) : procs' = [procs EXCEPT ![h] = r]
    /\ UNCHANGED <<svc_engine, svc_lock, watchdog, main, acall, scall, stopper,
                   qvars, evars, bvars, hvars>>

WatchdogStep ==
    WatchdogSleep \/ WatchdogHealthy \/ WatchdogRestart \/ WatchdogRestartEnd

AnalyzeStep == AnalyzeBegin \/ AnalyzeRestart \/ AnalyzeRestartEnd \/ AnalyzeEnd

NextService ==
    \/ MainStartBegin \/ MainStartEnd \/ MainSkip
    \/ Crash
    \/ WatchdogStep
    \/ AnalyzeStep
    \/ StreamBegin \/ StreamEnd
    \/ Stop
    \/ AbandonedStartEnd

SpecService == InitService /\ [][NextService]_vars

\* The event loop runs every task that can run.
FairSpecService ==
    /\ SpecService
    /\ WF_vars(WatchdogStep)
    /\ WF_vars(AnalyzeStep)
    /\ WF_vars(MainStartEnd)

\* C5: crash and restart.  When the engine held by the service has exited and
\* the watchdog is alive, the dead handle is eventually discarded.  A restart
\* is made by the watchdog only at a tick, WatchdogPeriod seconds after the
\* last one, while it takes the lock and the held engine is not running; it
\* leaves the service holding a fresh engine from the factory.  When that
\* start succeeds the service is running again, and every analysis request
\* is served by the engine held and running at that moment.
C5_CrashAndRestart ==
    /\ \A h \in 1..MaxEngines :
          (svc_engine = h /\ procs[h] = "exited") ~> (svc_engine # h)
    /\ [](svc_engine # 0 /\ procs[svc_engine] = "exited"
             => watchdog.task = "alive")
    /\ [][/\ (watchdog.pc = "sleep" /\ watchdog'.pc = "start"
                 => /\ watchdog.elapsed >= 30
                    /\ svc_lock = "free" /\ svc_lock' = "watchdog"
                    /\ svc_engine # 0 /\ procs[svc_engine] # "running"
                    /\ procs'[svc_engine] # "running"
                    /\ svc_engine' = Len(procs) + 1
                    /\ procs'[svc_engine'] = "starting")
          /\ (watchdog.pc = "start" /\ watchdog'.pc = "sleep"
              /\ watchdog'.task = "alive" /\ procs'[watchdog.h] = "running"
                 => /\ svc_engine' = watchdog.h
                    /\ ServiceRunning'
                    /\ svc_lock' = "free")
          /\ (acall.pc # "running" /\ acall'.pc = "running"
                 => acall'.served = svc_engine' /\ ServiceRunning')
          /\ (scall.pc # "streaming" /\ scall'.pc = "streaming"
                 => scall'.served = svc_engine' /\ ServiceRunning')
       ]_vars

\* the first engine crashed, the watchdog restarted, and a request was served
\* by the second engine
C5_Witness ==
    /\ Len(procs) = 2
    /\ procs[1] = "exited"
    /\ procs[2] = "running"
    /\ svc_engine = 2
    /\ watchdog.task = "alive" /\ watchdog.pc = "sleep"
    /\ main.pc = "done" /\ acall.pc = "done" /\ acall.h = 0 /\ acall.served = 2


\* C12: engine unavailable.  analyze called while no engine is held or the
\* held engine is not running takes the lock and makes one start attempt
\* while holding it; if the service is running afterwards engine.analyze is
\* called on the held engine, otherwise analyze raises and engine.analyze is
\* never called.  With a running engine no start attempt is made.
C12_EngineUnavailable ==
    [][/\ (acall.pc = "idle" /\ acall'.pc # "idle"
              => /\ svc_lock = "free" /\ svc_lock' = "analyze"
                 /\ IF ServiceRunning
                    THEN /\ acall'.pc = "running"
                         /\ acall'.served = svc_engine
                         /\ procs' = procs
                    ELSE /\ acall'.pc = "starting"
                         /\ Len(procs') = Len(procs) + 1
                         /\ procs'[Len(procs')] = "starting"
                         /\ acall'.served = 0)
       /\ (acall.pc = "starting"
              => svc_lock = "analyze" /\ Len(procs') = Len(procs))
       /\ (acall.pc = "starting" /\ acall'.pc # "starting"
              => IF ServiceRunning'
                 THEN /\ acall'.pc = "running"
                      /\ acall'.served = svc_engine'
                      /\ svc_lock' = "analyze"
                 ELSE /\ acall'.pc = "error"
                      /\ acall'.served = 0
                      /\ svc_lock' = "free")
       /\ (acall.pc = "error" => acall' = acall)
      ]_vars

\* the start attempt failed and analyze raised
C12_Witness ==
    /\ acall.pc = "error"
    /\ acall.served = 0
    /\ procs[acall.h] = "failed"
    /\ svc_engine = 0

\* the watchdog is inside its locked section making a new engine
WatchdogRestarting == watchdog.task = "alive" /\ watchdog.pc = "start"
\* a batch analyze call is inside its locked section
AnalyzeInProgress == acall.pc \in {"starting", "running"}

C17_FailedStart ==
    [][/\ (main.pc = "starting" /\ main'.pc # "starting"
              => /\ main'.pc = "done"
                 /\ (procs'[main.h] = "failed"
                        => /\ svc_engine' = 0
                           /\ ~ServiceRunning'
                           /\ watchdog' = watchdog))
       /\ (acall.pc = "starting" /\ acall'.pc # "starting"
           /\ procs'[acall.h] = "failed"
              => /\ svc_engine' = 0
                 /\ ~ServiceRunning'
                 /\ watchdog' = watchdog)
      ]_vars

\* the start-up start() failed: no engine, no watchdog
C17_Witness ==
    /\ main.pc = "done"
    /\ Len(procs) = 1 /\ procs[1] = "failed"
    /\ svc_engine = 0
    /\ watchdog.task = "none"
    /\ stopper = "idle"

\* C18: explicit shutdown is final.  When stop() returns the watchdog task is
\* cancelled and cleared, the engine that was held has been closed (its
\* process is not running) and the service holds no engine; from then on,
\* with no analyze call in progress or issued, every step leaves the service
\* without engine and without watchdog, so is_running() stays false.
C18_StopIsFinal ==
    /\ [][stopper = "idle" /\ stopper' = "done"
            => /\ watchdog'.task = "none"
               /\ svc_engine' = 0
               /\ ~ServiceRunning'
               /\ (svc_engine # 0 => procs'[svc_engine] # "running")]_vars
    /\ [][stopper = "done" /\ svc_engine = 0 /\ watchdog.task = "none"
          /\ acall' = acall
            => /\ svc_engine' = 0
               /\ watchdog'.task = "none"
               /\ ~ServiceRunning']_vars
    /\ [](stopper = "done" /\ acall.pc = "idle"
            => svc_engine = 0 /\ watchdog.task = "none" /\ ~ServiceRunning)

\* stop() after the watchdog had replaced a crashed engine: the replacement
\* is closed and nothing is held
C18_Witness ==
    /\ stopper = "done"
    /\ Len(procs) = 2
    /\ procs[1] = "exited" /\ procs[2] = "closed"
    /\ svc_engine = 0
    /\ watchdog.task = "none"
    /\ acall.pc = "idle"

\* ------------------------------------------------------------------------
\* Start-up specification: KataGoEngine.start() (lines 33-113)
\* ------------------------------------------------------------------------
\* "Started, ready to begin handling requests" in line
Banner == "banner"
StderrLines == {Banner, "other"}

InitStart ==
    /\ InitQueryVars
    /\ katago_process = "none"
    /\ InitEngineRest
    /\ setup = [callers |-> {}, bridge |-> FALSE, locks |-> FALSE]
    /\ InitServiceVars
    /\ start_call = [pc |-> "idle", elapsed |-> 0, alive |-> FALSE]
    /\ stderr_pipe = <<>>
    /\ stderr_queue = <<>>
    /\ error_log = {}
    /\ restarted = [process |-> "none", stdin |-> {}]

\* lines 55-86: the subprocess is launched, the reader and dispatcher threads
\* are started and start_time is taken
Launch ==
    /\ start_call.pc = "idle"
    /\ katago_process' = "running"
    /\ start_call' = [start_call EXCEPT !.pc = "check", !.elapsed = 0]
    /\ UNCHANGED <<engine_in, stdout_pipe, reader, response_queue, dispatcher,
                   pending_requests, sess, age, emitted, nlines, qvars, svars,
                   bvars, stderr_pipe, stderr_queue, error_log, restarted>>

\* lines 65-69: the executable is not found, Popen raises
LaunchFails ==
    /\ start_call.pc = "idle"
    /\ start_call' = [start_call EXCEPT !.pc = "not_found"]
    /\ UNCHANGED <<evars, qvars, svars, bvars, stderr_pipe, stderr_queue,
                   error_log, restarted>>

\* the process writes a line to stderr
StderrWrite ==
    /\ is_running
    /\ Len(stderr_pipe) + Len(stderr_queue) < MaxStderr
    /\ \E line \in StderrLines : stderr_pipe' = Append(stderr_pipe, line)
    /\ UNCHANGED <<evars, qvars, svars, bvars, start_call, stderr_queue,
                   error_log, restarted>>

\* _read_pipe on stderr: a line goes from the pipe to stderr_queue
ReadStderr ==
    /\ stderr_pipe # <<>>
    /\ stderr_queue' = Append(stderr_queue, Head(stderr_pipe))
    /\ stderr_pipe' = Tail(stderr_pipe)
    /\ UNCHANGED <<evars, qvars, svars, bvars, start_call, error_log, restarted>>

\* lines 90-96: the loop condition, then the liveness test
StartLoopCheck ==
    /\ start_call.pc = "check"
    /\ IF ~(start_call.elapsed < StartupCeiling)
       THEN \* lines 108-111: is_ready is false, the timeout is raised
            /\ start_call' = [start_call EXCEPT !.pc = "timeout_error"]
            /\ stderr_queue' = <<>>
       ELSE IF ~is_running
       THEN \* lines 92-96
            /\ start_call' = [start_call EXCEPT !.pc = "exited_error"]
            /\ stderr_queue' = <<>>
       ELSE /\ start_call' = [start_call EXCEPT !.pc = "get"]
            /\ stderr_queue' = stderr_queue
    /\ UNCHANGED <<evars, qvars, svars, bvars, stderr_pipe, error_log, restarted>>

\* a handshake that treats any stderr line as the banner
StartGetLine_AnyLine ==
    /\ start_call.pc = "get"
    /\ stderr_queue # <<>>
    /\ stderr_queue' = Tail(stderr_queue)
    /\ start_call' = [start_call EXCEPT !.pc = "returned", !.alive = is_running]
    /\ UNCHANGED <<evars, qvars, svars, bvars, stderr_pipe, error_log, restarted>>

\* lines 99-104: stderr_queue.get returns a line; the banner ends the loop
\* (`alive' records whether the process was running at that moment)
StartGetLine ==
    /\ start_call.pc = "get"
    /\ stderr_queue # <<>>
    /\ stderr_queue' = Tail(stderr_queue)
    /\ start_call' = IF Head(stderr_queue) = Banner
                     THEN [start_call EXCEPT !.pc = "returned",
                                             !.alive = is_running]
                     ELSE [start_call EXCEPT !.pc = "check"]
    /\ UNCHANGED <<evars, qvars, svars, bvars, stderr_pipe, error_log, restarted>>

\* lines 99, 105-106: the queue stays empty and get times out.  One step
\* stands for the empty iterations of TickStep seconds.
StartGetEmpty ==
    /\ start_call.pc = "get"
    /\ stderr_queue = <<>>
    /\ start_call' = [start_call EXCEPT !.pc = "check",
                                        !.elapsed = @ + TickStep]
    /\ UNCHANGED <<evars, qvars, svars, bvars, stderr_pipe, stderr_queue,
                   error_log, restarted>>

NextStart ==
    \/ Launch \/ LaunchFails
    \/ StderrWrite \/ ReadStderr \/ ProcessExit
    \/ StartLoopCheck \/ StartGetLine \/ StartGetEmpty

SpecStart == InitStart /\ [][NextStart]_vars

\* C11 as stated: start() returns normally only if the banner was read while
\* the process was still alive; once the process has exited with the banner
\* not yet observed, start() does not return normally.
C11_ReadyOnlyWhileAlive ==
    /\ [](start_call.pc = "returned" => start_call.alive)
    /\ [][start_call.pc # "returned" /\ ~is_running
            => start_call'.pc # "returned"]_vars

\* C11 (amended): start() returns normally only by reading a banner line
\* from stderr in a loop iteration that began less than StartupCeiling
\* seconds after the launch and found the process alive; an iteration that
\* finds the process exited raises, and so does the loop ending with the
\* ceiling reached and no banner read; nothing else ends start().
C11_ReadyOnlyWithBanner ==
    [][/\ (start_call.pc # "returned" /\ start_call'.pc = "returned"
              => /\ start_call.pc = "get"
                 /\ stderr_queue # <<>> /\ Head(stderr_queue) = Banner
                 /\ start_call.elapsed < 120)
       /\ (start_call.pc # "get" /\ start_call'.pc = "get"
              => /\ start_call.pc = "check"
                 /\ is_running
                 /\ start_call.elapsed < 120)
       /\ (start_call.pc = "check" /\ start_call'.pc # "check"
              => start_call'.pc =
                    (IF start_call.elapsed >= 120 THEN "timeout_error"
                     ELSE IF ~is_running THEN "exited_error" ELSE "get"))
       /\ (start_call.pc \in {"returned", "timeout_error", "exited_error",
                               "not_found"}
              => start_call' = start_call)
      ]_vars

\* the banner read after a silent stretch, the process alive
C11_Witness ==
    /\ start_call.pc = "returned"
    /\ start_call.elapsed > 0
    /\ start_call.alive

\* ------------------------------------------------------------------------
\* Coordinate specification: Move.sgf and Move.from_sgf (core/sgf/parser.py)
\* ------------------------------------------------------------------------
\* A compact coordinate text is the sequence of its characters; <<>> is "".
SGF_COORD == <<"a", "b", "c", "d", "e", "f", "g", "h", "i", "j", "k", "l", "m",
               "n", "o", "p", "q", "r", "s", "t", "u", "v", "w", "x", "y", "z",
               "A", "B", "C", "D", "E", "F", "G", "H", "I", "J", "K", "L", "M",
               "N", "O", "P", "Q", "R", "S", "T", "U", "V", "W", "X", "Y", "Z">>

\* Move.SGF_COORD.index(c)
SgfIndex(c) == (CHOOSE i \in 1..Len(SGF_COORD) : SGF_COORD[i] = c) - 1

\* Move(coords).sgf(board_size); board_size is <<width, height>>
sgf(coords, board_size) ==
    IF coords = PassCoord THEN <<>>
    ELSE <<SGF_COORD[coords[1] + 1],
           SGF_COORD[(board_size[2] - coords[2] - 1) + 1]>>

\* a decoder that takes "tt" for a pass on every board
from_sgf_TTAlwaysPass(sgf_coords, board_size) ==
    IF sgf_coords = <<>> \/ sgf_coords = <<"t", "t">>
    THEN PassCoord
    ELSE <<SgfIndex(sgf_coords[1]), board_size[2] - SgfIndex(sgf_coords[2]) - 1>>

\* Move.from_sgf(sgf_coords, board_size).coords
from_sgf(sgf_coords, board_size) ==
    IF sgf_coords = <<>>
       \/ (sgf_coords = <<"t", "t">> /\ board_size[1] <= 19 /\ board_size[2] <= 19)
    THEN PassCoord
    ELSE <<SgfIndex(sgf_coords[1]), board_size[2] - SgfIndex(sgf_coords[2]) - 1>>

\* widths and heights tried: small boards, the usual 9 and 13, and the sizes
\* around 19, where "tt" changes its meaning
BoardDims == {1, 2, 9, 13} \cup (18..MaxBoard)
BoardSizes == BoardDims \X BoardDims
\* the zero-based coordinates on a board, and the pass
OnBoard(board_size) == (0..(board_size[1] - 1)) \X (0..(board_size[2] - 1))
CoordInputs ==
    {[size |-> bs, coords |-> c] : bs \in BoardSizes, c \in {PassCoord}}
    \cup UNION {{[size |-> bs, coords |-> c] : c \in OnBoard(bs)} :
                   bs \in BoardSizes}

InitCoord ==
    /\ qin \in CoordInputs
    /\ qout = [op |-> "none"]
    /\ InitEngineVars
    /\ InitServiceVars /\ InitStartVars

\* Move.from_sgf(Move(coords).sgf(size), size)
RoundTrip ==
    /\ qout.op = "none"
    /\ LET text == sgf(qin.coords, qin.size)
       IN qout' = [op |-> "roundtrip", text |-> text,
                   back |-> from_sgf(text, qin.size)]
    /\ UNCHANGED <<qin, evars, bvars, svars, hvars>>

\* Move.from_sgf("tt", size)
DecodeTT ==
    /\ qout.op = "none"
    /\ qout' = [op |-> "decode_tt", text |-> <<"t", "t">>,
                back |-> from_sgf(<<"t", "t">>, qin.size)]
    /\ UNCHANGED <<qin, evars, bvars, svars, hvars>>

\* Move.from_sgf("", size)
DecodeEmpty ==
    /\ qout.op = "none"
    /\ qout' = [op |-> "decode_empty", text |-> <<>>,
                back |-> from_sgf(<<>>, qin.size)]
    /\ UNCHANGED <<qin, evars, bvars, svars, hvars>>

NextCoord == RoundTrip \/ DecodeTT \/ DecodeEmpty

SpecCoord == InitCoord /\ [][NextCoord]_vars

\* C19: coordinate laws.  For every board size and every zero-based
\* coordinate on the board, decoding the compact form of the coordinate gives
\* the coordinate back (and a pass gives a pass); "tt" decodes to a pass when
\* both board dimensions are at most 19 and otherwise to a coordinate, not a
\* pass, in column 19 (on the board when both dimensions exceed 19); the
\* empty text always decodes to a pass.
C19_CoordinateLaws ==
    /\ (qout.op = "roundtrip" => qout.back = qin.coords)
    /\ (qout.op = "decode_tt"
          => IF qin.size[1] <= 19 /\ qin.size[2] <= 19
             THEN qout.back = PassCoord
             ELSE /\ qout.back # PassCoord
                  /\ qout.back = <<19, qin.size[2] - 20>>
                  /\ (qin.size[1] > 19 /\ qin.size[2] > 19
                         => qout.back \in OnBoard(qin.size)))
    /\ (qout.op = "decode_empty" => qout.back = PassCoord)

\* on a 20x20 board the corner (19, 0) is written "tt" and read back
C19_Witness ==
    /\ qout.op = "roundtrip"
    /\ qin.size = <<20, 20>>
    /\ qin.coords = <<19, 0>>
    /\ qout.text = <<"t", "t">>
    /\ qout.back = <<19, 0>>

\* ------------------------------------------------------------------------
\* Further properties of the engine specification
\* ------------------------------------------------------------------------
\* the response lines for id s that are on their way to the dispatcher
InFlight(s) ==
    {i \in 1..Len(stdout_pipe) : stdout_pipe[i].id = s}
    \cup {Len(stdout_pipe) + i : i \in {j \in 1..Len(response_queue) :
                                            response_queue[j].id = s}}

\* C21 (register before send): whenever a session's query line is written
\* to the engine its entry is already in the table, and every response line
\* for an id that is in the pipe or in the response queue, and every
\* error-free response the process has written for it, belongs to an id
\* that was registered before.
C21_RegisterBeforeSend ==
    [][ /\ \A s \in Sessions :
             (s \in DOMAIN engine_in' /\ s \notin DOMAIN engine_in)
                => (s \in DOMAIN pending_requests /\ sess[s].registered)
        /\ \A s \in Sessions :
             (InFlight(s)' # {} \/ emitted'[s] # <<>>) => sess'[s].registered
      ]_vars

\* a response for a registered id is waiting for the dispatcher while the
\* entry is in the table and still empty
C21_Witness ==
    \E s \in Sessions :
        /\ s \in DOMAIN pending_requests
        /\ pending_requests[s].results = <<>>
        /\ \E j \in 1..Len(response_queue) :
              response_queue[j].id = s /\ response_queue[j].kind = "ok"

\* ------------------------------------------------------------------------
\* Records with variations: the query builders applied to game trees
\* ------------------------------------------------------------------------
\* A game tree is given by the parent of each node below the root (node 0).
\* The parser creates the nodes in the order of the text and appends each to
\* its parent's children (SGFNode.__init__), so the children of a node are in
\* increasing order of creation.
Trees == UNION {{p \in [1..n -> 0..(n - 1)] : \A i \in 1..n : p[i] < i} :
                 n \in 0..MaxTreeNodes}

RECURSIVE Ascending(_)
\* the elements of a set of numbers, smallest first
Ascending(S) ==
    IF S = {} THEN <<>>
    ELSE LET m == CHOOSE x \in S : \A y \in S : x <= y
         IN <<m>> \o Ascending(S \ {m})

\* node.children
children(p, i) == Ascending({j \in DOMAIN p : p[j] = i})

RECURSIVE Traverse(_, _, _)
\* the loop of nodes_in_tree: item = stack.pop(0); nodes.append(item);
\* stack += item.children
Traverse(p, stack, nodes) ==
    IF stack = <<>> THEN nodes
    ELSE Traverse(p, Tail(stack) \o children(p, Head(stack)),
                  Append(nodes, Head(stack)))

\* SGFNode.nodes_in_tree of the root
nodes_in_tree(p) == Traverse(p, <<0>>, <<>>)

RECURSIVE FirstChildPath(_, _)
\* the nodes below i along the first child at each level
FirstChildPath(p, i) ==
    IF children(p, i) = <<>> THEN <<>>
    ELSE <<Head(children(p, i))>> \o FirstChildPath(p, Head(children(p, i)))

RECURSIVE Depth(_, _)
Depth(p, i) == IF i = 0 THEN 0 ELSE 1 + Depth(p, p[i])

\* Node i carries one move: colours alternate with the depth, Black first,
\* and every node has a coordinate of its own.
TreeMove(p, i) == [player |-> IF Depth(p, i) % 2 = 1 THEN "B" ELSE "W",
                   coords |-> Coord(i)]

\* the parsed record as the query builders read it: the nodes after the root
\* in the order of nodes_in_tree (main_line_nodes[1:])
TreeRec(p) ==
    [nodes |-> [k \in 1..(Len(nodes_in_tree(p)) - 1) |->
                  [move |-> Some(TreeMove(p, nodes_in_tree(p)[k + 1]))]],
     placements |-> <<>>, pl |-> None, parent |-> p]

InitTree ==
    /\ qin \in [rec : {TreeRec(p) : p \in Trees},
                start_turn : TurnArgs, end_turn : TurnArgs]
    /\ qout = [op |-> "none"]
    /\ InitEngineVars
    /\ InitServiceVars /\ InitStartVars

SpecTree == InitTree /\ [][NextQuery]_vars

\* the moves along the first-child path from the root, as [player, vertex]
MainLineMoves(p) ==
    GtpList([k \in 1..Len(FirstChildPath(p, 0)) |->
               TreeMove(p, FirstChildPath(p, 0)[k])])

\* C22 (main-line move list): the move list of the query built by
\* construct_katago_query and by the streaming session is exactly the
\* sequence of moves along the first-child path from the root.
C22_MainLineMoves ==
    qout.op # "none" => qout.q.moves = MainLineMoves(qin.rec.parent)

\* C23 (protocol noise is never fatal): when the dispatcher processes a line
\* that is not a JSON object, the table and the error log are unchanged and
\* the loop is still running; an error-free response for a registered id
\* processed at any later time is appended to that id's entry; and the loop
\* never ends while the process runs.
C23_NoiseNotFatal ==
    [][ /\ (dispatcher = "running" /\ response_queue # <<>>
            /\ response_queue' = Tail(response_queue))
           => LET line == Head(response_queue)
              IN /\ line.kind = "nonjson"
                      => /\ pending_requests' = pending_requests
                         /\ error_log' = error_log
                         /\ dispatcher' = "running"
                 /\ (line.kind = "ok" /\ line.id \in DOMAIN pending_requests)
                      => pending_requests'[line.id].results
                           = Append(pending_requests[line.id].results, line)
        /\ dispatcher' = "stopped" => katago_process' # "running"
      ]_vars

\* the first line the process wrote was neither a response nor an error
\* line, and the response written after it is in the entry of its id
C23_Witness ==
    /\ error_log = {}
    /\ \A s \in Sessions : \A i \in 1..Len(emitted[s]) : emitted[s][i].n # 1
    /\ \E s \in DOMAIN pending_requests :
          \E i \in 1..Len(pending_requests[s].results) :
              pending_requests[s].results[i].n = 2

\* ------------------------------------------------------------------------
\* Further properties of the service specification
\* ------------------------------------------------------------------------
\* The event loop runs the watchdog task and the start-up call; analysis
\* requests arrive or not.
FairSpecWatchdog ==
    /\ SpecService
    /\ WF_vars(WatchdogStep)
    /\ WF_vars(MainStartEnd)

\* C24 (startup failures are retried by the watchdog): after an engine start
\* attempt has failed, a fresh start attempt is eventually made, with no
\* analysis request needed for it, unless the service is stopped.
C24_FailedStartRetried ==
    \A h \in 1..MaxEngines :
        (Len(procs) >= h /\ procs[h] = "failed")
            ~> (Len(procs) > h \/ stopper = "done")

C28_AtMostExpected ==
    \A s \in Sessions :
        sess[s].pc # "idle" => Len(sess[s].out) <= sess[s].num_expected

\* C29 (no response is lost at process exit): the dispatcher thread does not
\* stop while an error-free response line for a registered id is still
\* unread in the pipe or undispatched in the response queue.
C29_NoResponseLeftBehind ==
    dispatcher = "stopped"
        => \A s \in DOMAIN pending_requests :
              /\ \A i \in 1..Len(stdout_pipe) :
                    ~(stdout_pipe[i].id = s /\ stdout_pipe[i].kind = "ok")
              /\ \A i \in 1..Len(response_queue) :
                    ~(response_queue[i].id = s /\ response_queue[i].kind = "ok")

\* C30 (no engine process survives shutdown): once stop() has returned and
\* every engine start that was in progress has finished, no engine process
\* is running and the service holds no engine.  The engines looked at are
\* those started by the start-up call and by the watchdog, which stop()
\* cancels: while no analyze call has started an engine, every start began
\* before stop().
C30_NoEngineSurvivesStop ==
    (/\ stopper = "done"
     /\ acall.h = 0
     /\ \A h \in 1..Len(procs) : procs[h] # "starting")
        => /\ svc_engine = 0
           /\ \A h \in 1..Len(procs) : procs[h] # "running"

\* ------------------------------------------------------------------------
\* Annotation specification: process_analysis_results on one analysed node
\* (core/analysis/katago_utils.py lines 57-118)
\* ------------------------------------------------------------------------
\* Move.from_gtp(gtp_coords, player)
from_gtp(g, player) ==
    [player |-> player,
     coords |-> IF g.col = "pass" THEN PassCoord
                ELSE <<(CHOOSE i \in 1..Len(GTP_COORD) : GTP_COORD[i] = g.col) - 1,
                       g.row - 1>>]

\* m.get("order", 99)
OrderKey(m) == IF m.order = None THEN 99 ELSE Val(m.order)

RECURSIVE InsertByKey(_, _, _)
\* index i placed after every index whose key is not larger
InsertByKey(s, i, infos) ==
    IF s = <<>> THEN <<i>>
    ELSE IF OrderKey(infos[Head(s)]) <= OrderKey(infos[i])
    THEN <<Head(s)>> \o InsertByKey(Tail(s), i, infos)
    ELSE <<i>> \o s

RECURSIVE SortedFrom(_, _, _)
SortedFrom(infos, k, acc) ==
    IF k > Len(infos) THEN acc
    ELSE SortedFrom(infos, k + 1, InsertByKey(acc, k, infos))

\* lines 78-80: sorted(moveInfos, key=order) (a stable sort), as the list of
\* the positions of the candidates in the input
sorted_infos(infos) == SortedFrom(infos, 1, <<>>)

\* SGFNode.board_size without an SZ property
DefaultBoard == <<19, 19>>

\* SGFNode(parent, move): the move is kept as the property of its colour
NewNode(move) == [player |-> move.player, value |-> sgf(move.coords, DefaultBoard)]

\* SGFNode.move: the move read back from the property
NodeMove(node) ==
    [player |-> node.player, coords |-> from_sgf(node.value, DefaultBoard)]

\* SGFNode.play(move): the existing child with that move, else a new child
play(kids, move) ==
    IF \E k \in 1..Len(kids) : NodeMove(kids[k]) = move
    THEN kids ELSE Append(kids, NewNode(move))

RECURSIVE WalkCandidates_NoCap(_, _, _, _, _, _)
\* the walk without the break at three variations
WalkCandidates_NoCap(infos, todo, played_move_gtp, player_to_move, kids, made) ==
    IF todo = <<>> THEN [children |-> kids, made |-> made]
    ELSE LET var_move_gtp == infos[Head(todo)].move
         IN IF Some(var_move_gtp) # played_move_gtp
            THEN WalkCandidates_NoCap(infos, Tail(todo), played_move_gtp,
                                      player_to_move,
                                      play(kids, from_gtp(var_move_gtp, player_to_move)),
                                      Append(made, Head(todo)))
            ELSE WalkCandidates_NoCap(infos, Tail(todo), played_move_gtp,
                                      player_to_move, kids, made)

RECURSIVE WalkCandidates(_, _, _, _, _, _)
\* lines 90-118: the loop over the sorted candidates.  made lists the
\* candidates for which a variation node was obtained; its length is
\* variation_count.
WalkCandidates(infos, todo, played_move_gtp, player_to_move, kids, made) ==
    IF todo = <<>> THEN [children |-> kids, made |-> made]
    ELSE LET var_move_gtp == infos[Head(todo)].move
         IN IF Some(var_move_gtp) # played_move_gtp
            THEN LET kids2 == play(kids, from_gtp(var_move_gtp, player_to_move))
                     made2 == Append(made, Head(todo))
                 IN IF Len(made2) >= 3
                    THEN [children |-> kids2, made |-> made2]
                    ELSE WalkCandidates(infos, Tail(todo), played_move_gtp,
                                        player_to_move, kids2, made2)
            ELSE WalkCandidates(infos, Tail(todo), played_move_gtp,
                                player_to_move, kids, made)

\* Inputs: the candidates of one analysis result, and the move played next
\* on the main line (none at the last node).
CandMoves == {gtp(Coord(0)), gtp(Coord(1)), gtp(Coord(2)), gtp(PassCoord)}
CandOrders == Opt({1})
CandLists == UNION {[1..n -> [move : CandMoves, order : CandOrders]] :
                      n \in 0..MaxCands}
PlayedMoves == Opt({Coord(0), PassCoord})

InitAnnotate ==
    /\ qin \in [moveInfos : CandLists, played : PlayedMoves, currentPlayer : {"B"}]
    /\ qout = [op |-> "none"]
    /\ InitEngineVars
    /\ InitServiceVars /\ InitStartVars

\* lines 78-88: the candidates are sorted and the played move is looked up
SortInfos ==
    /\ qout.op = "none"
    /\ qout' = [op |-> "sorted",
                move_infos |-> sorted_infos(qin.moveInfos),
                played_move_gtp |-> IF qin.played = None THEN None
                                    ELSE Some(gtp(Val(qin.played))),
                children |-> IF qin.played = None THEN <<>>
                             ELSE <<NewNode([player |-> qin.currentPlayer,
                                             coords |-> Val(qin.played)])>>]
    /\ UNCHANGED <<qin, evars, bvars, svars, hvars>>

\* lines 90-118: the variations are added to the node
AddVariations ==
    /\ qout.op = "sorted"
    /\ LET r == WalkCandidates(qin.moveInfos, qout.move_infos,
                               qout.played_move_gtp, qin.currentPlayer,
                               qout.children, <<>>)
       IN qout' = [op |-> "annotated", before |-> qout.children,
                   children |-> r.children, made |-> r.made,
                   played_move_gtp |-> qout.played_move_gtp]
    /\ UNCHANGED <<qin, evars, bvars, svars, hvars>>

NextAnnotate == SortInfos \/ AddVariations

SpecAnnotate == InitAnnotate /\ [][NextAnnotate]_vars

\* candidate i comes before candidate j in the order of the walk
Before(i, j) ==
    \/ OrderKey(qin.moveInfos[i]) < OrderKey(qin.moveInfos[j])
    \/ OrderKey(qin.moveInfos[i]) = OrderKey(qin.moveInfos[j]) /\ i < j

\* the candidates that differ from the move played next
Eligible == {i \in 1..Len(qin.moveInfos) :
                Some(qin.moveInfos[i].move) # qout.played_move_gtp}

\* C27 (annotation cap and selection): the candidates for which a variation
\* is made are taken in ascending order field, ties in input order; none of
\* them is the move played next; they are the first three (or all, when
\* fewer) of the candidates that differ from the played move; and the node
\* gains at most three children, all of them moves of those candidates,
\* while its existing children stay.
C27_AnnotationCap ==
    qout.op = "annotated" =>
        /\ \A a, b \in 1..Len(qout.made) :
              a < b => Before(qout.made[a], qout.made[b])
        /\ \A a \in 1..Len(qout.made) : qout.made[a] \in Eligible
        /\ Len(qout.made) <= 3
        /\ \A i \in Eligible :
              (\E a \in 1..Len(qout.made) : qout.made[a] = i)
              \/ (Len(qout.made) = 3
                  /\ \A a \in 1..3 : Before(qout.made[a], i))
        /\ Len(qout.children) <= Len(qout.before) + 3
        /\ SubSeq(qout.children, 1, Len(qout.before)) = qout.before
        /\ \A k \in (Len(qout.before) + 1)..Len(qout.children) :
              \E a \in 1..Len(qout.made) :
                  NodeMove(qout.children[k])
                    = from_gtp(qin.moveInfos[qout.made[a]].move, qin.currentPlayer)

\* four candidates with different moves, none of them the played one, the
\* first of the input without an order field: three children were added
C27_Witness ==
    /\ qout.op = "annotated"
    /\ Cardinality(Eligible) = 4
    /\ Cardinality({qin.moveInfos[i].move : i \in Eligible}) = 4
    /\ qin.moveInfos[1].order = None
    /\ qin.moveInfos[2].order # None
    /\ Len(qout.children) = Len(qout.before) + 3
    /\ qout.made[1] = 2

\* ------------------------------------------------------------------------
\* Lock specification: one session and the dispatcher, with the holding of
\* self.lock tracked step by step
\* ------------------------------------------------------------------------
InitLock ==
    /\ InitQueryVars
    /\ InitEngineCore
    /\ InitServiceVars /\ InitStartVars
    /\ setup = [callers |-> {1}, bridge |-> FALSE, locks |-> TRUE]

NextLock ==
    \/ Next
    \/ DispatchLock
    \/ \E s \in Sessions : Acquire(s)
    \/ \E s \in Sessions : PollEmpty(s)
    \/ \E s \in Sessions : Sleep(s)

SpecLock == InitLock /\ [][NextLock]_vars

\* C25 (pending-table lock discipline): at most one thread holds the lock.
\* A session holds it only just before the insertion, a snapshot or a
\* removal, and its next step is that operation and the release: never the
\* write or the flush of the query, a yield or the sleep between polls.  The
\* dispatcher holds it only with a response in hand, its next step is the
\* append and the release, and it takes no line from the queue meanwhile;
\* the reader thread moves lines from the pipe whoever holds the lock.
C25_LockDiscipline ==
    [][ /\ Cardinality({s \in Sessions : sess'[s].locked})
             + (IF dispatcher' = "appending" THEN 1 ELSE 0) <= 1
        /\ \A s \in Sessions :
             /\ sess'[s].locked => sess'[s].pc \in {"built", "loop", "check"}
             /\ (sess[s].locked /\ sess'[s] # sess[s])
                  => /\ ~sess'[s].locked
                     /\ \/ s \notin DOMAIN pending_requests
                           /\ s \in DOMAIN pending_requests'
                        \/ s \in DOMAIN pending_requests
                           /\ s \notin DOMAIN pending_requests'
                        \/ pending_requests' = pending_requests
                           /\ sess[s].pc = "loop"
                           /\ sess'[s].pc \in {"yielding", "check", "sleep"}
                     /\ engine_in' = engine_in
                     /\ sess'[s].writes = sess[s].writes
                     /\ sess'[s].out = sess[s].out
             /\ (\/ sess'[s].writes # sess[s].writes
                 \/ sess[s].pc = "written" /\ sess'[s].pc # "written"
                 \/ sess'[s].out # sess[s].out
                 \/ sess[s].pc = "sleep" /\ sess'[s].pc # "sleep")
                  => ~sess[s].locked /\ ~sess'[s].locked
        /\ dispatcher = "appending"
             => \/ dispatcher' = "appending" /\ pending_requests' = pending_requests
                   /\ \A i \in 1..Len(response_queue) :
                         response_queue'[i] = response_queue[i]
                \/ /\ dispatcher' = "running"
                   /\ response_queue' = Tail(response_queue)
                   /\ pending_requests'
                        = DispatchAppend(pending_requests, Head(response_queue))
      ]_vars

\* the session holds the lock for a snapshot while the dispatcher has a
\* response in hand and waits for the lock
C25_Witness ==
    /\ setup.locks
    /\ \E s \in Sessions : sess[s].locked /\ sess[s].pc = "loop"
    /\ dispatcher = "running"
    /\ response_queue # <<>>
    /\ Head(response_queue).kind = "ok"

====
